---- MODULE Spec2Model ----
(***************************************************************************)
(* Model of the mailbox connection manager of tgEmailResend:               *)
(*   internal/email/manager.go  Manager (registry of sessions, m.mu)       *)
(*   unnamed/part_004           Client  (one IMAP session, c.mu, StartIDLE)*)
(*   internal/email/idle.go     IdleClient (the fixed-interval wait)       *)
(*   internal/config/config.go  Bot.onNewEmail (the message callback)      *)
(*   internal/database/*.go     the rows the callback writes               *)
(*                                                                         *)
(* Exclusive operations of the Manager (AddAccount, RemoveAccount,         *)
(* StopAll) hold m.mu from their first statement to their return, so at    *)
(* most one of them is past its Lock() at any instant: mgr is that one.    *)
(* A caller blocked in m.mu.Lock() has done nothing yet, so any number of  *)
(* concurrent callers is covered by letting a new operation begin whenever *)
(* mgr is idle.  Every Client created by AddAccount is a session object;   *)
(* its goroutine runClient/StartIDLE is a process whose position is pc.    *)
(***************************************************************************)
EXTENDS Integers, Sequences, FiniteSets, TLC

\* ---------------------------------------------------------------- bounds
NumAccounts == 1
MaxSessions == 2
MaxTransports == 3
MaxUID == 3
NumCallers == 2

Accounts == 1..NumAccounts
Sessions == 1..MaxSessions
Transports == 1..MaxTransports
UIDs == 1..MaxUID
Callers == 1..NumCallers

\* One more account, next to the accounts whose whole life cycle Spec
\* follows: the account that is not the one being operated on.
Peer == NumAccounts + 1
AllAccounts == Accounts \cup {Peer}

\* a nil pointer / an absent map entry
Nil == 0

VARIABLES
    clients,    \* Manager.clients: account id -> session (Nil: no entry)
    mgr,        \* the exclusive Manager operation that holds m.mu, or the
                \* last one and what it returned (pc = "ret": m.mu is free)
    acct,       \* session -> account id of its wrapper (Nil: not created yet)
    client,     \* Client.client: the transport handle (Nil: none)
    connected,  \* Client.connected
    stopped,    \* Client.stopped
    stopCh,     \* Client.stopCh is closed
    cancels,    \* how many times wrapper.cancel() fired
    mu,         \* Client.mu: "free" or its holder
    pc,         \* position of the session's goroutine runClient
    lastUID,    \* runClient's local lastUID
    since,      \* sinceUID of the FetchNewMessages call that is in flight or
                \* whose messages are being processed (0 otherwise)
    batch,      \* messages returned by FetchNewMessages, not yet processed
    tstate,     \* transport -> "unused" | "open" | "closed" (released before the
                \* call that opened it returned) | "teardown" (handed to the
                \* goroutine of Stop: Logout, Terminate after 2 s)
    owner,      \* transport -> the session that opened it
    crashed,    \* the Go runtime aborted the process (fatal error)
    mailbox,    \* account id -> UIDs present in its INBOX on the server
    uidNext,    \* account id -> next UID the server assigns
    rows,       \* email_messages: set of <<account id, uid>>
    chatSent,   \* <<account id, uid>> -> chat messages sent for it
    dbLastUID,  \* email_accounts.last_uid
    ops,        \* caller -> the call it is in (Manager.MarkAsRead,
                \* Manager.DeleteMessage, Client.Stop) and where
    closes,     \* session -> how many times close(c.stopCh) ran
    teardowns,  \* transport -> how many times Stop started its Logout
    parentDone, \* the context handed to AddAccount / RestoreAll is cancelled
    bad,        \* <<account id, uid>> of the messages on the server whose body
                \* mail.CreateReader cannot read
    flagged,    \* account id -> UIDs in its INBOX that carry \Deleted
    restore,    \* the RestoreAll call: where it is, the goroutines not
                \* started yet, the one inside AddAccount, what each got
    resolve,    \* the ResolveIMAPServer call: its argument, what the network
                \* answers, the probes and lookups made so far, the result
    emailAccounts, \* table email_accounts: account id -> the topic of its row
                \* (Nil: no row)
    handlers    \* caller -> the /connect or /create command it is handling

sessVars == <<acct, client, connected, stopped, stopCh, cancels, mu, pc>>
fetchVars == <<lastUID, since, batch>>
netVars == <<tstate, owner>>
dbVars == <<rows, chatSent, dbLastUID>>
srvVars == <<mailbox, uidNext, bad, flagged>>
handlerVars == <<resolve, emailAccounts, handlers>>
callVars == <<ops, parentDone, restore, handlerVars>>
stopVars == <<closes, teardowns>>
vars == <<clients, mgr, sessVars, fetchVars, netVars, crashed, srvVars, dbVars, callVars, stopVars>>

NoCall == [op |-> "none", id |-> Nil, uid |-> Nil, s |-> Nil, tr |-> Nil, pc |-> "idle", res |-> "none"]

\* no ResolveIMAPServer call
NoResolve == [pc |-> "idle"]

\* the caller handles no command
NoCommand == [pc |-> "idle", topic |-> Nil, id |-> Nil, res |-> "none"]

\* no RestoreAll call
NoRestore == [pc |-> "idle", accs |-> {}, todo |-> {}, cur |-> Nil,
              res |-> [id \in AllAccounts |-> "none"]]

Idle == [op |-> "idle", id |-> Nil, s |-> Nil, tr |-> Nil, pc |-> "idle", res |-> "none"]

\* ------------------------------------------------------------ allocation
FreeSessions == {s \in Sessions : acct[s] = Nil}
NewSession == CHOOSE s \in FreeSessions : \A r \in FreeSessions : s <= r
FreeTransports == {t \in Transports : tstate[t] = "unused"}
NewTransport == CHOOSE t \in FreeTransports : \A r \in FreeTransports : t <= r

\* ------------------------------------------------------------------ Init
Init ==
    /\ clients = [id \in AllAccounts |-> Nil]
    /\ mgr = Idle
    /\ acct = [s \in Sessions |-> Nil]
    /\ client = [s \in Sessions |-> Nil]
    /\ connected = [s \in Sessions |-> FALSE]
    /\ stopped = [s \in Sessions |-> FALSE]
    /\ stopCh = [s \in Sessions |-> FALSE]
    /\ cancels = [s \in Sessions |-> 0]
    /\ mu = [s \in Sessions |-> "free"]
    /\ pc = [s \in Sessions |-> "none"]
    /\ lastUID = [s \in Sessions |-> 0]
    /\ since = [s \in Sessions |-> 0]
    /\ batch = [s \in Sessions |-> <<>>]
    /\ tstate = [t \in Transports |-> "unused"]
    /\ owner = [t \in Transports |-> Nil]
    /\ crashed = FALSE
    /\ mailbox = [id \in AllAccounts |-> {}]
    /\ uidNext = [id \in AllAccounts |-> 1]
    /\ bad = {}
    /\ flagged = [id \in AllAccounts |-> {}]
    /\ restore = NoRestore
    /\ resolve = NoResolve
    /\ emailAccounts = [id \in AllAccounts |-> Nil]
    /\ handlers = [p \in Callers |-> NoCommand]
    /\ rows = {}
    /\ chatSent = [k \in AllAccounts \X UIDs |-> 0]
    /\ dbLastUID = [id \in AllAccounts |-> 0]
    /\ ops = [p \in Callers |-> NoCall]
    /\ closes = [s \in Sessions |-> 0]
    /\ teardowns = [t \in Transports |-> 0]
    /\ parentDone = FALSE

\* ======================================================== Client methods
\* unnamed/part_004

\* Outcomes of the dial + greeting + login of Client.Connect.  "authfail"
\* stands for both failures after the dial succeeded (client.New, Login):
\* the transport was opened and is released before Connect returns.
ConnectOutcomes == IF FreeTransports = {} THEN {"dialfail"} ELSE {"ok", "authfail", "dialfail"}

\* Client.Connect, whole method (it holds c.mu from entry to return, and
\* never reads ctx nor c.stopped).
Connect(s, r) ==
    IF connected[s] \/ r = "dialfail"
    THEN UNCHANGED <<client, connected, tstate, owner>>
    ELSE /\ owner' = [owner EXCEPT ![NewTransport] = s]
         /\ IF r = "ok"
            THEN /\ tstate' = [tstate EXCEPT ![NewTransport] = "open"]
                 /\ client' = [client EXCEPT ![s] = NewTransport]
                 /\ connected' = [connected EXCEPT ![s] = TRUE]
            ELSE /\ tstate' = [tstate EXCEPT ![NewTransport] = "closed"]
                 /\ UNCHANGED <<client, connected>>

\* the error Connect returns is nil
ConnectOK(s, r) == connected[s] \/ r = "ok"

\* the guard of SelectINBOX, FetchNewMessages, MarkAsRead, DeleteMessage
NotConnected(s) == ~connected[s] \/ client[s] = Nil

\* Client.IsConnected
IsConnected(s) == connected[s]

\* Client.Stop run to completion in one step: used where no other
\* goroutine can reach the Client (it was never registered).
StopUnshared(s) ==
    IF stopped[s]
    THEN UNCHANGED <<stopped, client, connected, stopCh, tstate, stopVars>>
    ELSE /\ stopped' = [stopped EXCEPT ![s] = TRUE]
         /\ client' = [client EXCEPT ![s] = Nil]
         /\ connected' = [connected EXCEPT ![s] = FALSE]
         /\ stopCh' = [stopCh EXCEPT ![s] = TRUE]
         /\ closes' = [closes EXCEPT ![s] = @ + 1]
         /\ tstate' = IF client[s] = Nil THEN tstate
                      ELSE [tstate EXCEPT ![client[s]] = "teardown"]
         /\ teardowns' = IF client[s] = Nil THEN teardowns
                         ELSE [teardowns EXCEPT ![client[s]] = @ + 1]

\* ============================================================== Manager
\* internal/email/manager.go

\* `_, exists := m.clients[id]`
Exists(id) == clients[id] # Nil

Registered == {id \in AllAccounts : Exists(id)}

\* m.mu is free: no exclusive operation is between its Lock and its return
LockFree == mgr.pc \in {"idle", "ret"}

InOp(op, at) == [op |-> op.op, id |-> op.id, s |-> op.s, tr |-> op.tr, pc |-> at, res |-> "none"]
Call(op, id, s, at) == [op |-> op, id |-> id, s |-> s, tr |-> Nil, pc |-> at, res |-> "none"]
Return(op, id, s, res) == [op |-> op, id |-> id, s |-> s, tr |-> Nil, pc |-> "ret", res |-> res]

\* AddAccount without the existence check of lines 89-92
AddBeginNoCheck(id) ==
    /\ ~crashed
    /\ LockFree
    /\ FreeSessions # {}
    /\ acct' = [acct EXCEPT ![NewSession] = id]
    /\ mgr' = Call("add", id, NewSession, "connect")
    /\ UNCHANGED <<clients, client, connected, stopped, stopCh, cancels, mu, pc,
                   fetchVars, netVars, crashed, srvVars, dbVars>>
    /\ UNCHANGED <<callVars, stopVars>>

\* AddAccount up to NewClient: Lock, the existence check, the new Client.
AddBegin(id) ==
    /\ ~crashed
    /\ LockFree
    /\ IF Exists(id)
       THEN /\ mgr' = Return("add", id, Nil, "nil")
            /\ UNCHANGED acct
       ELSE /\ FreeSessions # {}
            /\ acct' = [acct EXCEPT ![NewSession] = id]
            /\ mgr' = Call("add", id, NewSession, "connect")
    /\ UNCHANGED <<clients, client, connected, stopped, stopCh, cancels, mu, pc,
                   fetchVars, netVars, crashed, srvVars, dbVars>>
    /\ UNCHANGED <<callVars, stopVars>>

\* AddAccount: client.Connect(ctx), m.mu held.
AddConnect ==
    /\ ~crashed
    /\ mgr.op = "add" /\ mgr.pc = "connect"
    /\ \E r \in ConnectOutcomes :
        /\ Connect(mgr.s, r)
        /\ mgr' = IF ConnectOK(mgr.s, r) THEN InOp(mgr, "select")
                  ELSE Return("add", mgr.id, mgr.s, "err")
    /\ UNCHANGED <<clients, acct, stopped, stopCh, cancels, mu, pc,
                   fetchVars, crashed, srvVars, dbVars>>
    /\ UNCHANGED <<callVars, stopVars>>

\* AddAccount after SelectINBOX succeeded: the wrapper with its own context,
\* the map entry, `go m.runClient(wrapper)` (which starts by copying
\* account.LastUID), return nil.
AddRegister(s, id) ==
    /\ clients' = [clients EXCEPT ![id] = s]
    /\ pc' = [pc EXCEPT ![s] = "fSel"]
    /\ lastUID' = [lastUID EXCEPT ![s] = dbLastUID[id]]
    /\ mgr' = Return("add", id, s, "nil")
    /\ UNCHANGED <<stopped, client, connected, stopCh, tstate, stopVars>>

\* AddAccount returning the error of SelectINBOX without client.Stop()
AddSelectFailedNoStop(s, id) ==
    /\ mgr' = Return("add", id, s, "err")
    /\ UNCHANGED <<clients, pc, lastUID, stopped, client, connected, stopCh, tstate, stopVars>>

\* AddAccount after SelectINBOX failed: client.Stop(), return err.
AddSelectFailed(s, id) ==
    /\ StopUnshared(s)
    /\ mgr' = Return("add", id, s, "err")
    /\ UNCHANGED <<clients, pc, lastUID>>

\* AddAccount: client.SelectINBOX(ctx) and what follows it, m.mu held.
AddSelect ==
    /\ ~crashed
    /\ mgr.op = "add" /\ mgr.pc = "select"
    /\ \E r \in {"ok", "fail"} :
        IF r = "ok" /\ ~NotConnected(mgr.s)
        THEN AddRegister(mgr.s, mgr.id)
        ELSE AddSelectFailed(mgr.s, mgr.id)
    /\ UNCHANGED <<acct, cancels, mu, since, batch, owner, crashed, srvVars, dbVars>>
    /\ UNCHANGED callVars

\* RemoveAccount firing the cancel of every registered wrapper
RemoveBeginCancelAll(id) ==
    /\ ~crashed
    /\ LockFree
    /\ IF ~Exists(id)
       THEN /\ mgr' = Return("remove", id, Nil, "nil")
            /\ UNCHANGED cancels
       ELSE /\ cancels' = [s \in Sessions |->
                            IF \E other \in Registered : clients[other] = s
                            THEN cancels[s] + 1 ELSE cancels[s]]
            /\ mgr' = Call("remove", id, clients[id], "stop")
    /\ UNCHANGED <<clients, acct, client, connected, stopped, stopCh, mu, pc,
                   fetchVars, netVars, crashed, srvVars, dbVars>>
    /\ UNCHANGED <<callVars, stopVars>>

\* RemoveAccount up to wrapper.cancel(): Lock, the lookup, the cancel.
RemoveBegin(id) ==
    /\ ~crashed
    /\ LockFree
    /\ IF ~Exists(id)
       THEN /\ mgr' = Return("remove", id, Nil, "nil")
            /\ UNCHANGED cancels
       ELSE /\ cancels' = [cancels EXCEPT ![clients[id]] = @ + 1]
            /\ mgr' = Call("remove", id, clients[id], "stop")
    /\ UNCHANGED <<clients, acct, client, connected, stopped, stopCh, mu, pc,
                   fetchVars, netVars, crashed, srvVars, dbVars>>
    /\ UNCHANGED <<callVars, stopVars>>

\* StopAll without wrapper.cancel()
StopAllPickNoCancel ==
    /\ ~crashed
    /\ LockFree \/ (mgr.op = "stopall" /\ mgr.pc = "pick")
    /\ IF Registered = {}
       THEN mgr' = Return("stopall", Nil, Nil, "nil")
       ELSE \E id \in Registered : mgr' = Call("stopall", id, clients[id], "stop")
    /\ UNCHANGED <<clients, acct, client, connected, stopped, stopCh, cancels, mu, pc,
                   fetchVars, netVars, crashed, srvVars, dbVars>>
    /\ UNCHANGED <<callVars, stopVars>>

\* StopAll: Lock, then one iteration of `for id, wrapper := range m.clients`
\* up to wrapper.cancel() (Go ranges over a map in any order), or the
\* return when the map is exhausted.
StopAllPick ==
    /\ ~crashed
    /\ LockFree \/ (mgr.op = "stopall" /\ mgr.pc = "pick")
    /\ IF Registered = {}
       THEN /\ mgr' = Return("stopall", Nil, Nil, "nil")
            /\ UNCHANGED cancels
       ELSE \E id \in Registered :
            /\ cancels' = [cancels EXCEPT ![clients[id]] = @ + 1]
            /\ mgr' = Call("stopall", id, clients[id], "stop")
    /\ UNCHANGED <<clients, acct, client, connected, stopped, stopCh, mu, pc,
                   fetchVars, netVars, crashed, srvVars, dbVars>>
    /\ UNCHANGED <<callVars, stopVars>>

\* Client.Stop called by RemoveAccount / StopAll: the section under c.mu
\* (lines 406-415).  It waits for c.mu.
MgrStop ==
    /\ ~crashed
    /\ mgr.op \in {"remove", "stopall"} /\ mgr.pc = "stop"
    /\ mu[mgr.s] = "free"
    /\ IF stopped[mgr.s]
       THEN /\ mgr' = InOp(mgr, "delete")
            /\ UNCHANGED <<stopped, client, connected>>
       ELSE /\ stopped' = [stopped EXCEPT ![mgr.s] = TRUE]
            /\ client' = [client EXCEPT ![mgr.s] = Nil]
            /\ connected' = [connected EXCEPT ![mgr.s] = FALSE]
            /\ mgr' = [InOp(mgr, "close") EXCEPT !.tr = client[mgr.s]]
    /\ UNCHANGED <<clients, acct, stopCh, cancels, mu, pc,
                   fetchVars, netVars, crashed, srvVars, dbVars>>
    /\ UNCHANGED <<callVars, stopVars>>

\* The rest of Client.Stop (close(c.stopCh), the teardown goroutine), then
\* delete(m.clients, id); RemoveAccount returns, StopAll goes on ranging.
MgrClose ==
    /\ ~crashed
    /\ mgr.op \in {"remove", "stopall"} /\ mgr.pc \in {"close", "delete"}
    /\ stopCh' = IF mgr.pc = "close" THEN [stopCh EXCEPT ![mgr.s] = TRUE] ELSE stopCh
    /\ closes' = IF mgr.pc = "close" THEN [closes EXCEPT ![mgr.s] = @ + 1] ELSE closes
    /\ tstate' = IF mgr.pc = "close" /\ mgr.tr # Nil
                 THEN [tstate EXCEPT ![mgr.tr] = "teardown"] ELSE tstate
    /\ teardowns' = IF mgr.pc = "close" /\ mgr.tr # Nil
                    THEN [teardowns EXCEPT ![mgr.tr] = @ + 1] ELSE teardowns
    /\ clients' = [clients EXCEPT ![mgr.id] = Nil]
    /\ mgr' = IF mgr.op = "remove" THEN Return("remove", mgr.id, mgr.s, "nil")
              ELSE Call("stopall", Nil, Nil, "pick")
    /\ UNCHANGED <<acct, client, connected, stopped, cancels, mu, pc,
                   fetchVars, owner, crashed, srvVars, dbVars>>
    /\ UNCHANGED callVars

\* GetStatus with the two results of IsConnected exchanged
GetStatusSwapped(id) ==
    IF ~Exists(id) THEN "disconnected"
    ELSE IF IsConnected(clients[id]) THEN "reconnecting" ELSE "connected"

\* Manager.GetStatus
GetStatus(id) ==
    IF ~Exists(id) THEN "disconnected"
    ELSE IF IsConnected(clients[id]) THEN "connected" ELSE "reconnecting"

\* ======================================================= the IMAP server
\* What `UID FETCH lo:*` selects (part_004 lines 134-146: the sequence set
\* is AddRange(sinceUID+1, 0), 0 being "*").  "*" is the highest UID in the
\* mailbox and the two ends of a range are unordered (RFC 3501, 6.4.8 and
\* 9, seq-range), so lo:* covers the highest message even when lo is above
\* every assigned UID.
MaxOf(S) == CHOOSE x \in S : \A y \in S : y <= x

UidRange(box, lo) ==
    IF box = {} THEN {}
    ELSE LET star == MaxOf(box)
             a == IF lo <= star THEN lo ELSE star
             b == IF lo <= star THEN star ELSE lo
         IN {u \in box : a <= u /\ u <= b}

\* the order in which the server streams the FETCH responses is its own
RECURSIVE Orders(_)
Orders(S) ==
    IF S = {} THEN {<<>>}
    ELSE UNION {{<<x>> \o rest : rest \in Orders(S \ {x})} : x \in S}

\* new mail is given the next UID
MailArrives(id) ==
    /\ ~crashed
    /\ uidNext[id] <= MaxUID
    /\ mailbox' = [mailbox EXCEPT ![id] = @ \cup {uidNext[id]}]
    /\ uidNext' = [uidNext EXCEPT ![id] = @ + 1]
    /\ UNCHANGED <<bad, flagged>>
    /\ UNCHANGED <<clients, mgr, sessVars, fetchVars, netVars, crashed, dbVars>>
    /\ UNCHANGED <<callVars, stopVars>>

\* ==================================================== the message callback
\* Bot.onNewEmail (config.go lines 82-165) with DB.CreateMessage and
\* DB.UpdateAccountLastUID.  o is what the collaborators answer:
\*   "geterr"   GetAccountByID fails
\*   "dberr"    the INSERT fails
\*   "sendfail" the chat send fails
\*   "updfail"  the last_uid UPDATE fails
\*   "ok"       all succeed
\* INSERT OR IGNORE under UNIQUE(account_id, uid) affects no row when the
\* row is there: CreateMessage returns ErrAlreadyExists.
CallbackOutcomes == {"geterr", "dberr", "sendfail", "updfail", "ok"}

AlreadyExists(id, uid) == <<id, uid>> \in rows

onNewEmail(id, uid, o) ==
    IF o \in {"geterr", "dberr"} \/ AlreadyExists(id, uid)
    THEN UNCHANGED <<rows, chatSent, dbLastUID>>
    ELSE /\ rows' = rows \cup {<<id, uid>>}
         /\ chatSent' = IF o = "sendfail" THEN chatSent
                        ELSE [chatSent EXCEPT ![<<id, uid>>] = @ + 1]
         /\ dbLastUID' = IF o = "ok" THEN [dbLastUID EXCEPT ![id] = uid] ELSE dbLastUID

\* ============================================ the goroutine of a session
\* Manager.runClient -> Manager.fetchNewMessages -> Client.StartIDLE

\* `*lastUID = msg.UID` without the comparison
AdvanceUIDNoCompare(last, uid) == uid

\* `if msg.UID > *lastUID { *lastUID = msg.UID }`
AdvanceUID(last, uid) == IF uid > last THEN uid ELSE last

\* A message arrives whose body is not a readable MIME entity.
MalformedArrives(id) ==
    /\ ~crashed
    /\ uidNext[id] <= MaxUID
    /\ mailbox' = [mailbox EXCEPT ![id] = @ \cup {uidNext[id]}]
    /\ bad' = bad \cup {<<id, uidNext[id]>>}
    /\ uidNext' = [uidNext EXCEPT ![id] = @ + 1]
    /\ UNCHANGED flagged
    /\ UNCHANGED <<clients, mgr, sessVars, fetchVars, netVars, crashed, dbVars>>
    /\ UNCHANGED <<callVars, stopVars>>

\* fetchNewMessages calling the error callback inside the Client's lock
FetchBeginKeepsLock(s) ==
    /\ ~crashed
    /\ pc[s] = "fSel"
    /\ mu[s] = "free"
    /\ \E r \in {"ok", "fail"} :
        IF r = "ok" /\ ~NotConnected(s)
        THEN /\ pc' = [pc EXCEPT ![s] = "fFetchIO"]
             /\ mu' = [mu EXCEPT ![s] = "loop"]
             /\ since' = [since EXCEPT ![s] = lastUID[s]]
        ELSE /\ pc' = [pc EXCEPT ![s] = "onErr"]
             /\ mu' = [mu EXCEPT ![s] = "loop"]
             /\ UNCHANGED since
    /\ UNCHANGED <<clients, mgr, acct, client, connected, stopped, stopCh, cancels,
                   lastUID, batch, netVars, crashed, srvVars, dbVars>>
    /\ UNCHANGED <<callVars, stopVars>>

\* fetchNewMessages lines 157-166: SelectINBOX (lock, guard, SELECT,
\* unlock), then Client.FetchNewMessages up to its UID FETCH (lock, guard,
\* request).  An error of the select takes the branch of line 157.  The
\* fetch is in flight, c.mu held, until FetchEnd.
FetchBegin(s) ==
    /\ ~crashed
    /\ pc[s] = "fSel"
    /\ mu[s] = "free"
    /\ \E r \in {"ok", "fail"} :
        IF r = "ok" /\ ~NotConnected(s)
        THEN /\ pc' = [pc EXCEPT ![s] = "fFetchIO"]
             /\ mu' = [mu EXCEPT ![s] = "loop"]
             /\ since' = [since EXCEPT ![s] = lastUID[s]]
        ELSE /\ pc' = [pc EXCEPT ![s] = "onErr"]
             /\ UNCHANGED <<mu, since>>
    /\ UNCHANGED <<clients, mgr, acct, client, connected, stopped, stopCh, cancels,
                   lastUID, batch, netVars, crashed, srvVars, dbVars>>
    /\ UNCHANGED <<callVars, stopVars>>

\* The messages FetchNewMessages returns for what the server streamed:
\* parseMessage returns a nil error on every path, so none is skipped.
Parsed(streamed) == streamed

\* Where fetchNewMessages goes with what FetchNewMessages returned.
AfterFetch(r, emails) ==
    IF r # "ok" THEN "onErr" ELSE IF emails = <<>> THEN "top" ELSE "fDeliver"

\* fetchNewMessages keeping the messages parsed before the error
FetchEndKeepsParsed(s) ==
    /\ ~crashed
    /\ pc[s] = "fFetchIO"
    /\ IF mu[s] = "free"
       THEN /\ crashed' = TRUE
            /\ UNCHANGED <<batch, pc, since, mu>>
       ELSE /\ \E r \in {"ok", "fail"} :
               \E streamed \in Orders(UidRange(mailbox[acct[s]], since[s] + 1)) :
                /\ batch' = [batch EXCEPT ![s] = Parsed(streamed)]
                /\ pc' = [pc EXCEPT ![s] = AfterFetch(r, Parsed(streamed))]
                /\ since' = [since EXCEPT ![s] =
                                IF AfterFetch(r, Parsed(streamed)) = "fDeliver" THEN @ ELSE 0]
            /\ mu' = [mu EXCEPT ![s] = "free"]
            /\ UNCHANGED crashed
    /\ UNCHANGED <<clients, mgr, acct, client, connected, stopped, stopCh, cancels,
                   lastUID, netVars, srvVars, dbVars>>
    /\ UNCHANGED <<callVars, stopVars>>

\* Client.FetchNewMessages from the UID FETCH to its return (unlock), and
\* fetchNewMessages' test of the error: on an error the messages parsed so
\* far are dropped.  The deferred c.mu.Unlock() ends the process when
\* another goroutine's Unlock has already released c.mu.
FetchEnd(s) ==
    /\ ~crashed
    /\ pc[s] = "fFetchIO"
    /\ IF mu[s] = "free"
       THEN /\ crashed' = TRUE
            /\ UNCHANGED <<batch, pc, since, mu>>
       ELSE /\ \E r \in {"ok", "fail"} :
               \E streamed \in Orders(UidRange(mailbox[acct[s]], since[s] + 1)) :
                /\ batch' = [batch EXCEPT ![s] = IF r = "ok" THEN Parsed(streamed) ELSE <<>>]
                /\ pc' = [pc EXCEPT ![s] = AfterFetch(r, Parsed(streamed))]
                /\ since' = [since EXCEPT ![s] =
                                IF AfterFetch(r, Parsed(streamed)) = "fDeliver" THEN @ ELSE 0]
            /\ mu' = [mu EXCEPT ![s] = "free"]
            /\ UNCHANGED crashed
    /\ UNCHANGED <<clients, mgr, acct, client, connected, stopped, stopCh, cancels,
                   lastUID, netVars, srvVars, dbVars>>
    /\ UNCHANGED <<callVars, stopVars>>

\* fetchNewMessages lines 158-162 / 168-172: the error is logged, handed
\* to the error callback, and fetchNewMessages returns; nothing else.
LoopOnError(s) ==
    /\ ~crashed
    /\ pc[s] = "onErr"
    /\ pc' = [pc EXCEPT ![s] = "top"]
    /\ UNCHANGED <<clients, mgr, acct, client, connected, stopped, stopCh, cancels, mu,
                   fetchVars, netVars, crashed, srvVars, dbVars>>
    /\ UNCHANGED <<callVars, stopVars>>

\* fetchNewMessages: one turn of `for _, msg := range messages`.
Deliver(s) ==
    /\ ~crashed
    /\ pc[s] = "fDeliver"
    /\ \E o \in CallbackOutcomes : onNewEmail(acct[s], Head(batch[s]), o)
    /\ lastUID' = [lastUID EXCEPT ![s] = AdvanceUID(@, Head(batch[s]))]
    /\ batch' = [batch EXCEPT ![s] = Tail(@)]
    /\ pc' = [pc EXCEPT ![s] = IF Tail(batch[s]) = <<>> THEN "top" ELSE "fDeliver"]
    /\ since' = [since EXCEPT ![s] = IF Tail(batch[s]) = <<>> THEN 0 ELSE @]
    /\ UNCHANGED <<clients, mgr, acct, client, connected, stopped, stopCh, cancels, mu,
                   netVars, crashed, srvVars>>
    /\ UNCHANGED <<callVars, stopVars>>

\* the context of the wrapper is done
Cancelled(s) == cancels[s] > 0

\* StartIDLE: the non-blocking select at the top of the loop.
LoopTop(s) ==
    /\ ~crashed
    /\ pc[s] = "top"
    /\ pc' = [pc EXCEPT ![s] = IF Cancelled(s) \/ stopCh[s] THEN "exit" ELSE "chk"]
    /\ UNCHANGED <<clients, mgr, acct, client, connected, stopped, stopCh, cancels, mu,
                   fetchVars, netVars, crashed, srvVars, dbVars>>
    /\ UNCHANGED <<callVars, stopVars>>

\* StartIDLE lines 328-352: lock, `if !c.connected || c.client == nil`.
\* Not connected: the unlock of line 330.  Connected: the unlock of line
\* 342, and lines 345-352, which take c.mu again only to read c.client.
LoopCheck(s) ==
    /\ ~crashed
    /\ pc[s] = "chk"
    /\ mu[s] = "free"
    /\ pc' = [pc EXCEPT ![s] = IF NotConnected(s) THEN "reconn" ELSE "wait"]
    /\ UNCHANGED <<clients, mgr, acct, client, connected, stopped, stopCh, cancels, mu,
                   fetchVars, netVars, crashed, srvVars, dbVars>>
    /\ UNCHANGED <<callVars, stopVars>>

\* StartIDLE returning the error of c.Connect instead of retrying
LoopReconnectExitOnError(s) ==
    /\ ~crashed
    /\ pc[s] = "reconn"
    /\ mu[s] = "free"
    /\ \E r \in ConnectOutcomes :
        /\ Connect(s, r)
        /\ pc' = [pc EXCEPT ![s] = IF ConnectOK(s, r) THEN "reSel" ELSE "exit"]
    /\ UNCHANGED <<clients, mgr, acct, stopped, stopCh, cancels, mu,
                   fetchVars, crashed, srvVars, dbVars>>
    /\ UNCHANGED <<callVars, stopVars>>

\* StartIDLE lines 331-335: c.Connect(ctx); on an error sleep and continue.
LoopReconnect(s) ==
    /\ ~crashed
    /\ pc[s] = "reconn"
    /\ mu[s] = "free"
    /\ \E r \in ConnectOutcomes :
        /\ Connect(s, r)
        /\ pc' = [pc EXCEPT ![s] = IF ConnectOK(s, r) THEN "reSel" ELSE "top"]
    /\ UNCHANGED <<clients, mgr, acct, stopped, stopCh, cancels, mu,
                   fetchVars, crashed, srvVars, dbVars>>
    /\ UNCHANGED <<callVars, stopVars>>

\* StartIDLE lines 336-340: c.SelectINBOX(ctx); on an error sleep and continue.
LoopReselect(s) ==
    /\ ~crashed
    /\ pc[s] = "reSel"
    /\ mu[s] = "free"
    /\ \E r \in {"ok", "fail"} :
        pc' = [pc EXCEPT ![s] = IF r = "ok" /\ ~NotConnected(s) THEN "unlock" ELSE "top"]
    /\ UNCHANGED <<clients, mgr, acct, client, connected, stopped, stopCh, cancels, mu,
                   fetchVars, netVars, crashed, srvVars, dbVars>>
    /\ UNCHANGED <<callVars, stopVars>>

\* StartIDLE line 342 reached from line 340: c.mu.Unlock() by a goroutine
\* that released c.mu at line 330.  sync.Mutex has no owner: the call
\* releases the lock if another goroutine holds it (the loop then goes on
\* to lines 345-352), and otherwise the runtime ends the process (fatal
\* error: sync: unlock of unlocked mutex).
LoopUnlock(s) ==
    /\ ~crashed
    /\ pc[s] = "unlock"
    /\ IF mu[s] = "free"
       THEN crashed' = TRUE /\ UNCHANGED <<mu, pc>>
       ELSE /\ mu' = [mu EXCEPT ![s] = "free"]
            /\ pc' = [pc EXCEPT ![s] = IF client[s] = Nil THEN "top" ELSE "wait"]
            /\ UNCHANGED crashed
    /\ UNCHANGED <<clients, mgr, acct, client, connected, stopped, stopCh, cancels,
                   fetchVars, netVars, srvVars, dbVars>>
    /\ UNCHANGED <<callVars, stopVars>>

\* The cases of the select of lines 365-384 that are ready.  idleDone
\* carries the result of IdleWithFallback, which is pollFallback with a 15 s
\* ticker and returns nil on both of its cases: "tick" is always among the
\* ready cases sooner or later, and the err != nil branch is never taken.
WaitReady(s) ==
    {"tick"} \cup (IF Cancelled(s) THEN {"ctx"} ELSE {}) \cup (IF stopCh[s] THEN {"stop"} ELSE {})

\* StartIDLE going back to the top of its loop after the wait, without
\* calling onNewMail()
LoopWaitNoCallback(s) ==
    /\ ~crashed
    /\ pc[s] = "wait"
    /\ \E c \in WaitReady(s) :
        pc' = [pc EXCEPT ![s] = IF c = "tick" THEN "top" ELSE "exit"]
    /\ UNCHANGED <<clients, mgr, acct, client, connected, stopped, stopCh, cancels, mu,
                   fetchVars, netVars, crashed, srvVars, dbVars>>
    /\ UNCHANGED <<callVars, stopVars>>

\* StartIDLE lines 355-388: the wait, then onNewMail() (fetchNewMessages).
\* Go picks among the ready cases of a select at random.
LoopWait(s) ==
    /\ ~crashed
    /\ pc[s] = "wait"
    /\ \E c \in WaitReady(s) :
        pc' = [pc EXCEPT ![s] = IF c = "tick" THEN "fSel" ELSE "exit"]
    /\ UNCHANGED <<clients, mgr, acct, client, connected, stopped, stopCh, cancels, mu,
                   fetchVars, netVars, crashed, srvVars, dbVars>>
    /\ UNCHANGED <<callVars, stopVars>>

\* ======================================================== specifications
ManagerStep ==
    \/ \E id \in Accounts : AddBegin(id)
    \/ AddConnect
    \/ AddSelect
    \/ \E id \in Accounts : RemoveBegin(id)
    \/ StopAllPick
    \/ MgrStop
    \/ MgrClose

CycleStep(s) ==
    \/ FetchBegin(s)
    \/ FetchEnd(s)
    \/ LoopOnError(s)
    \/ LoopTop(s)
    \/ LoopCheck(s)
    \/ LoopWait(s)

ReconnectStep(s) ==
    \/ LoopReconnect(s)
    \/ LoopReselect(s)
    \/ LoopUnlock(s)

\* The manager, its sessions and their transports; no mail arrives.
Next ==
    \/ ManagerStep
    \/ \E s \in Sessions : CycleStep(s)
    \/ \E s \in Sessions : ReconnectStep(s)

Spec == Init /\ [][Next]_vars

\* One account in steady state: AddAccount has returned nil for it (the
\* state Spec reaches by AddBegin, AddConnect "ok", AddSelect "ok"), mail
\* arrives, the session's goroutine runs its fetch cycles.
TheAccount == CHOOSE id \in Accounts : \A other \in Accounts : id <= other

InitFetch ==
    /\ clients = [id \in AllAccounts |-> IF id = TheAccount THEN 1 ELSE Nil]
    /\ mgr = Return("add", TheAccount, 1, "nil")
    /\ acct = [s \in Sessions |-> IF s = 1 THEN TheAccount ELSE Nil]
    /\ client = [s \in Sessions |-> IF s = 1 THEN 1 ELSE Nil]
    /\ connected = [s \in Sessions |-> s = 1]
    /\ stopped = [s \in Sessions |-> FALSE]
    /\ stopCh = [s \in Sessions |-> FALSE]
    /\ cancels = [s \in Sessions |-> 0]
    /\ mu = [s \in Sessions |-> "free"]
    /\ pc = [s \in Sessions |-> IF s = 1 THEN "fSel" ELSE "none"]
    /\ lastUID = [s \in Sessions |-> 0]
    /\ since = [s \in Sessions |-> 0]
    /\ batch = [s \in Sessions |-> <<>>]
    /\ tstate = [t \in Transports |-> IF t = 1 THEN "open" ELSE "unused"]
    /\ owner = [t \in Transports |-> IF t = 1 THEN 1 ELSE Nil]
    /\ crashed = FALSE
    /\ mailbox = [id \in AllAccounts |-> {}]
    /\ uidNext = [id \in AllAccounts |-> 1]
    /\ bad = {}
    /\ flagged = [id \in AllAccounts |-> {}]
    /\ restore = NoRestore
    /\ resolve = NoResolve
    /\ emailAccounts = [id \in AllAccounts |-> Nil]
    /\ handlers = [p \in Callers |-> NoCommand]
    /\ rows = {}
    /\ chatSent = [k \in AllAccounts \X UIDs |-> 0]
    /\ dbLastUID = [id \in AllAccounts |-> 0]
    /\ ops = [p \in Callers |-> NoCall]
    /\ closes = [s \in Sessions |-> 0]
    /\ teardowns = [t \in Transports |-> 0]
    /\ parentDone = FALSE

NextFetch ==
    \/ MailArrives(TheAccount)
    \/ MalformedArrives(TheAccount)
    \/ \E s \in Sessions : CycleStep(s)
    \/ \E s \in Sessions : Deliver(s)

SpecFetch == InitFetch /\ [][NextFetch]_vars

\* The same with the scheduling the Go runtime and the network give: a
\* goroutine that can take a step takes it (the runtime is preemptive),
\* and a request that was sent is answered or fails.
SpecFetchFair == SpecFetch /\ \A s \in Sessions : WF_vars(CycleStep(s) \/ Deliver(s))

\* ===================================================== calls on a Client
\* Client.Stop called on session s by any goroutine p that holds the
\* Client, concurrently with other callers and with the session's loop.

\* a call of caller p can begin
CallerFree(p) == ops[p].pc \in {"idle", "ret"}

InCall(op, s, tr, at) == [op |-> op, id |-> Nil, uid |-> Nil, s |-> s, tr |-> tr, pc |-> at, res |-> "none"]
Returned(op, s, res) == [op |-> op, id |-> Nil, uid |-> Nil, s |-> s, tr |-> Nil, pc |-> "ret", res |-> res]

\* Client.Stop without the test of c.stopped (lines 407-410)
StopEnterNoCheck(p, s) ==
    /\ ~crashed
    /\ CallerFree(p)
    /\ acct[s] # Nil
    /\ mu[s] = "free"
    /\ stopped' = [stopped EXCEPT ![s] = TRUE]
    /\ client' = [client EXCEPT ![s] = Nil]
    /\ connected' = [connected EXCEPT ![s] = FALSE]
    /\ ops' = [ops EXCEPT ![p] = InCall("stop", s, client[s], "close")]
    /\ UNCHANGED <<clients, mgr, acct, stopCh, cancels, mu, pc, fetchVars, netVars,
                   crashed, srvVars, dbVars, parentDone, restore, handlerVars, stopVars>>

\* Client.Stop, lines 406-415: the section under c.mu.
StopEnter(p, s) ==
    /\ ~crashed
    /\ CallerFree(p)
    /\ acct[s] # Nil
    /\ mu[s] = "free"
    /\ IF stopped[s]
       THEN /\ ops' = [ops EXCEPT ![p] = Returned("stop", s, "nil")]
            /\ UNCHANGED <<stopped, client, connected>>
       ELSE /\ stopped' = [stopped EXCEPT ![s] = TRUE]
            /\ client' = [client EXCEPT ![s] = Nil]
            /\ connected' = [connected EXCEPT ![s] = FALSE]
            /\ ops' = [ops EXCEPT ![p] = InCall("stop", s, client[s], "close")]
    /\ UNCHANGED <<clients, mgr, acct, stopCh, cancels, mu, pc, fetchVars, netVars,
                   crashed, srvVars, dbVars, parentDone, restore, handlerVars, stopVars>>

\* Client.Stop, lines 417-436: close(c.stopCh) (closing a closed channel
\* panics), then the goroutine that logs the transport out.
StopRest(p) ==
    /\ ~crashed
    /\ ops[p].op = "stop" /\ ops[p].pc = "close"
    /\ closes' = [closes EXCEPT ![ops[p].s] = @ + 1]
    /\ IF stopCh[ops[p].s]
       THEN /\ crashed' = TRUE
            /\ UNCHANGED <<stopCh, tstate, teardowns, ops>>
       ELSE /\ stopCh' = [stopCh EXCEPT ![ops[p].s] = TRUE]
            /\ tstate' = IF ops[p].tr = Nil THEN tstate
                         ELSE [tstate EXCEPT ![ops[p].tr] = "teardown"]
            /\ teardowns' = IF ops[p].tr = Nil THEN teardowns
                            ELSE [teardowns EXCEPT ![ops[p].tr] = @ + 1]
            /\ ops' = [ops EXCEPT ![p] = Returned("stop", ops[p].s, "nil")]
            /\ UNCHANGED crashed
    /\ UNCHANGED <<clients, mgr, acct, client, connected, stopped, cancels, mu, pc,
                   fetchVars, owner, srvVars, dbVars, parentDone, restore, handlerVars>>

\* One running session and any number of Stop() calls on its Client.
NextStop ==
    \/ \E p \in Callers : \E s \in Sessions : StopEnter(p, s)
    \/ \E p \in Callers : StopRest(p)
    \/ \E s \in Sessions : CycleStep(s)
    \/ \E s \in Sessions : ReconnectStep(s)

SpecStop == InitFetch /\ [][NextStop]_vars

\* the arguments accountID and uid of a MarkAsRead / DeleteMessage call
About(call, id, uid) == [call EXCEPT !.id = id, !.uid = uid]

\* Manager.MarkAsRead / Manager.DeleteMessage returning an error for an
\* account without an entry
OpBeginMissingIsError(p, op, id, uid) ==
    /\ ~crashed
    /\ CallerFree(p)
    /\ LockFree
    /\ ops' = [ops EXCEPT ![p] = About(IF Exists(id) THEN InCall(op, clients[id], Nil, "lock")
                                       ELSE Returned(op, Nil, "err"), id, uid)]
    /\ UNCHANGED <<clients, mgr, sessVars, fetchVars, netVars, crashed, srvVars, dbVars,
                   parentDone, restore, handlerVars, stopVars>>

\* Manager.MarkAsRead / Manager.DeleteMessage, lines 224-230 / 240-246:
\* the lookup under m.mu.RLock (it waits while a writer holds m.mu), the
\* return when there is no entry.  The caller keeps the wrapper it found.
OpBeginFor(p, op, id, uid) ==
    /\ ~crashed
    /\ CallerFree(p)
    /\ LockFree
    /\ ops' = [ops EXCEPT ![p] = About(IF Exists(id) THEN InCall(op, clients[id], Nil, "lock")
                                       ELSE Returned(op, Nil, "nil"), id, uid)]
    /\ UNCHANGED <<clients, mgr, sessVars, fetchVars, netVars, crashed, srvVars, dbVars,
                   parentDone, restore, handlerVars, stopVars>>

\* A call about the message identifier MaxUID.
OpBegin(p, op, id) == OpBeginFor(p, op, id, MaxUID)

\* Client.MarkAsRead / Client.DeleteMessage: c.mu.Lock(), the test of
\* c.connected and c.client; then the UID STORE (and EXPUNGE) is in flight.
OpLock(p) ==
    /\ ~crashed
    /\ ops[p].op \in {"mark", "delete"} /\ ops[p].pc = "lock"
    /\ mu[ops[p].s] = "free"
    /\ IF NotConnected(ops[p].s)
       THEN /\ ops' = [ops EXCEPT ![p] = About(Returned(ops[p].op, ops[p].s, "err"),
                                               ops[p].id, ops[p].uid)]
            /\ UNCHANGED mu
       ELSE /\ ops' = [ops EXCEPT ![p] = About(InCall(ops[p].op, ops[p].s, client[ops[p].s], "io"),
                                               ops[p].id, ops[p].uid)]
            /\ mu' = [mu EXCEPT ![ops[p].s] = "op"]
    /\ UNCHANGED <<clients, mgr, acct, client, connected, stopped, stopCh, cancels, pc,
                   fetchVars, netVars, crashed, srvVars, dbVars, parentDone, restore, handlerVars, stopVars>>

\* How the server answers: the UID STORE fails, or it succeeds and (for a
\* delete) the EXPUNGE fails, or all of it succeeds.
FlagOutcomes(op) == IF op = "delete" THEN {"storeErr", "expungeErr", "nil"}
                    ELSE {"storeErr", "nil"}

\* DeleteMessage that stops after the UID STORE
FlagEffectNoExpunge(op, id, uid, r) ==
    IF op = "delete" /\ r # "storeErr"
    THEN /\ flagged' = [flagged EXCEPT ![id] = @ \cup ({uid} \cap mailbox[id])]
         /\ UNCHANGED mailbox
    ELSE UNCHANGED <<mailbox, flagged>>

\* What the commands do to the INBOX of account id: UID STORE +FLAGS
\* \Deleted marks the message if it is there (a UID naming no message is
\* not an error), EXPUNGE removes every marked message; \Seen is not
\* followed.
FlagEffect(op, id, uid, r) ==
    IF op = "delete" /\ r = "expungeErr"
    THEN /\ flagged' = [flagged EXCEPT ![id] = @ \cup ({uid} \cap mailbox[id])]
         /\ UNCHANGED mailbox
    ELSE IF op = "delete" /\ r = "nil"
    THEN /\ mailbox' = [mailbox EXCEPT ![id] = @ \ (flagged[id] \cup {uid})]
         /\ flagged' = [flagged EXCEPT ![id] = {}]
    ELSE UNCHANGED <<mailbox, flagged>>

\* Client.MarkAsRead / Client.DeleteMessage: the server answered (or the
\* transport failed), the deferred c.mu.Unlock(), the return.  The Unlock
\* ends the process when c.mu is not locked any more.
OpEnd(p) ==
    /\ ~crashed
    /\ ops[p].op \in {"mark", "delete"} /\ ops[p].pc = "io"
    /\ \E r \in FlagOutcomes(ops[p].op) :
        /\ FlagEffect(ops[p].op, acct[ops[p].s], ops[p].uid, r)
        /\ IF mu[ops[p].s] = "free"
           THEN /\ crashed' = TRUE
                /\ UNCHANGED <<mu, ops>>
           ELSE /\ mu' = [mu EXCEPT ![ops[p].s] = "free"]
                /\ ops' = [ops EXCEPT ![p] =
                              About(Returned(ops[p].op, ops[p].s, IF r = "nil" THEN "nil" ELSE "err"),
                                    ops[p].id, ops[p].uid)]
                /\ UNCHANGED crashed
    /\ UNCHANGED <<clients, mgr, acct, client, connected, stopped, stopCh, cancels, pc,
                   fetchVars, netVars, uidNext, bad, dbVars, parentDone, restore, handlerVars, stopVars>>

FlagStep(p) ==
    \/ \E op \in {"mark", "delete"} : \E id \in Accounts : OpBegin(p, op, id)
    \/ OpLock(p)
    \/ OpEnd(p)

\* One registered account: its loop, MarkAsRead and DeleteMessage calls of
\* the handlers, and RemoveAccount.
NextOps ==
    \/ \E p \in Callers : FlagStep(p)
    \/ RemoveBegin(TheAccount)
    \/ MgrStop
    \/ MgrClose
    \/ \E s \in Sessions : CycleStep(s)
    \/ \E s \in Sessions : ReconnectStep(s)

SpecOps == InitFetch /\ [][NextOps]_vars

\* ====================================================== several accounts
\* The parent context (the ctx argument of AddAccount and RestoreAll) is
\* cancelled.  AddAccount builds the wrapper's context from
\* context.Background() (line 121), and Connect and SelectINBOX do not
\* read their ctx: nothing else changes.
ParentCancel ==
    /\ ~crashed
    /\ ~parentDone
    /\ parentDone' = TRUE
    /\ UNCHANGED <<clients, mgr, sessVars, fetchVars, netVars, crashed, srvVars, dbVars,
                   ops, restore, handlerVars, stopVars>>

\* Account Peer is registered and running, with whatever last_uid its row
\* had when it was added; the other accounts are not registered yet.
InitAccounts ==
    /\ clients = [id \in AllAccounts |-> IF id = Peer THEN 1 ELSE Nil]
    /\ mgr = Return("add", Peer, 1, "nil")
    /\ acct = [s \in Sessions |-> IF s = 1 THEN Peer ELSE Nil]
    /\ client = [s \in Sessions |-> IF s = 1 THEN 1 ELSE Nil]
    /\ connected = [s \in Sessions |-> s = 1]
    /\ stopped = [s \in Sessions |-> FALSE]
    /\ stopCh = [s \in Sessions |-> FALSE]
    /\ cancels = [s \in Sessions |-> 0]
    /\ mu = [s \in Sessions |-> "free"]
    /\ pc = [s \in Sessions |-> IF s = 1 THEN "fSel" ELSE "none"]
    /\ \E u \in 0..MaxUID :
        /\ lastUID = [s \in Sessions |-> IF s = 1 THEN u ELSE 0]
        /\ dbLastUID = [id \in AllAccounts |-> IF id = Peer THEN u ELSE 0]
    /\ since = [s \in Sessions |-> 0]
    /\ batch = [s \in Sessions |-> <<>>]
    /\ tstate = [t \in Transports |-> IF t = 1 THEN "open" ELSE "unused"]
    /\ owner = [t \in Transports |-> IF t = 1 THEN 1 ELSE Nil]
    /\ crashed = FALSE
    /\ mailbox = [id \in AllAccounts |-> {}]
    /\ uidNext = [id \in AllAccounts |-> 1]
    /\ bad = {}
    /\ flagged = [id \in AllAccounts |-> {}]
    /\ restore = NoRestore
    /\ resolve = NoResolve
    /\ emailAccounts = [id \in AllAccounts |-> Nil]
    /\ handlers = [p \in Callers |-> NoCommand]
    /\ rows = {}
    /\ chatSent = [k \in AllAccounts \X UIDs |-> 0]
    /\ ops = [p \in Callers |-> NoCall]
    /\ closes = [s \in Sessions |-> 0]
    /\ teardowns = [t \in Transports |-> 0]
    /\ parentDone = FALSE

\* The accounts of Accounts are added and removed while Peer runs.
NextAccounts ==
    \/ \E id \in Accounts : AddBegin(id)
    \/ AddConnect
    \/ AddSelect
    \/ \E id \in Accounts : RemoveBegin(id)
    \/ MgrStop
    \/ MgrClose
    \/ ParentCancel
    \/ \E s \in Sessions : CycleStep(s)
    \/ \E s \in Sessions : ReconnectStep(s)

SpecAccounts == InitAccounts /\ [][NextAccounts]_vars

\* ================================================================ claims

\* ------------------------------------------------------ mail and flags
\* the handler whose calls are followed
TheCaller == CHOOSE p \in Callers : \A other \in Callers : p <= other

\* A call about a message that arrived at some time and may have been
\* deleted since: the handlers take the identifier from a notification.
OpBeginKnown(p, op, id, uid) ==
    /\ uid < uidNext[id]
    /\ OpBeginFor(p, op, id, uid)

\* One registered account with mail arriving, its loop up to the return
\* of FetchNewMessages, and a handler that marks and deletes messages of
\* it.
NextMail ==
    \/ MailArrives(TheAccount)
    \/ \E op \in {"mark", "delete"} : \E uid \in UIDs :
            OpBeginKnown(TheCaller, op, TheAccount, uid)
    \/ OpLock(TheCaller)
    \/ OpEnd(TheCaller)
    \/ \E s \in Sessions : CycleStep(s)

SpecMail == InitFetch /\ [][NextMail]_vars

\* Nothing is registered; the INBOX of TheAccount holds one message, the
\* one with identifier MaxUID.
InitDrop ==
    /\ clients = [id \in AllAccounts |-> Nil]
    /\ mgr = Idle
    /\ acct = [s \in Sessions |-> Nil]
    /\ client = [s \in Sessions |-> Nil]
    /\ connected = [s \in Sessions |-> FALSE]
    /\ stopped = [s \in Sessions |-> FALSE]
    /\ stopCh = [s \in Sessions |-> FALSE]
    /\ cancels = [s \in Sessions |-> 0]
    /\ mu = [s \in Sessions |-> "free"]
    /\ pc = [s \in Sessions |-> "none"]
    /\ lastUID = [s \in Sessions |-> 0]
    /\ since = [s \in Sessions |-> 0]
    /\ batch = [s \in Sessions |-> <<>>]
    /\ tstate = [t \in Transports |-> "unused"]
    /\ owner = [t \in Transports |-> Nil]
    /\ crashed = FALSE
    /\ mailbox = [id \in AllAccounts |-> IF id = TheAccount THEN {MaxUID} ELSE {}]
    /\ uidNext = [id \in AllAccounts |-> IF id = TheAccount THEN MaxUID + 1 ELSE 1]
    /\ bad = {}
    /\ flagged = [id \in AllAccounts |-> {}]
    /\ restore = NoRestore
    /\ resolve = NoResolve
    /\ emailAccounts = [id \in AllAccounts |-> Nil]
    /\ handlers = [p \in Callers |-> NoCommand]
    /\ rows = {}
    /\ chatSent = [k \in AllAccounts \X UIDs |-> 0]
    /\ dbLastUID = [id \in AllAccounts |-> 0]
    /\ ops = [p \in Callers |-> NoCall]
    /\ closes = [s \in Sessions |-> 0]
    /\ teardowns = [t \in Transports |-> 0]
    /\ parentDone = FALSE

\* An account that is not registered at first: a handler marks and
\* deletes its message while AddAccount is called for it; the account's
\* loop runs up to the return of FetchNewMessages.
NextDrop ==
    \/ \E op \in {"mark", "delete"} : OpBegin(TheCaller, op, TheAccount)
    \/ OpLock(TheCaller)
    \/ OpEnd(TheCaller)
    \/ AddBegin(TheAccount)
    \/ AddConnect
    \/ AddSelect
    \/ \E s \in Sessions : CycleStep(s)

SpecDrop == InitDrop /\ [][NextDrop]_vars

\* ------------------------------------------------- registry operations
\* The account field of a Client that TestConnection made: no wrapper, no
\* account id.
Throwaway == 0 - 1

\* Manager.TestConnection: NewClient and client.Connect(ctx); m.mu is not
\* taken anywhere in it.
TestBegin(p) ==
    /\ ~crashed
    /\ CallerFree(p)
    /\ FreeSessions # {}
    /\ acct' = [acct EXCEPT ![NewSession] = Throwaway]
    /\ \E r \in ConnectOutcomes :
        /\ Connect(NewSession, r)
        /\ ops' = [ops EXCEPT ![p] = IF ConnectOK(NewSession, r)
                                     THEN InCall("test", NewSession, Nil, "select")
                                     ELSE Returned("test", NewSession, "err")]
    /\ UNCHANGED <<clients, mgr, stopped, stopCh, cancels, mu, pc,
                   fetchVars, crashed, srvVars, dbVars, parentDone, restore, handlerVars, stopVars>>

\* TestConnection returning the error of SelectINBOX at once
TestSelectNoStop(p) ==
    /\ ~crashed
    /\ ops[p].op = "test" /\ ops[p].pc = "select"
    /\ \E r \in {"ok", "fail"} :
        IF r = "ok"
        THEN /\ StopUnshared(ops[p].s)
             /\ ops' = [ops EXCEPT ![p] = Returned("test", ops[p].s, "nil")]
        ELSE /\ ops' = [ops EXCEPT ![p] = Returned("test", ops[p].s, "err")]
             /\ UNCHANGED <<stopped, client, connected, stopCh, tstate, stopVars>>
    /\ UNCHANGED <<clients, mgr, acct, cancels, mu, pc, owner,
                   fetchVars, crashed, srvVars, dbVars, parentDone, restore, handlerVars>>

\* Manager.TestConnection lines 75-81: client.SelectINBOX(ctx), then
\* client.Stop() on either outcome, then the return.
TestSelect(p) ==
    /\ ~crashed
    /\ ops[p].op = "test" /\ ops[p].pc = "select"
    /\ StopUnshared(ops[p].s)
    /\ \E r \in {"ok", "fail"} :
        ops' = [ops EXCEPT ![p] = Returned("test", ops[p].s, IF r = "ok" THEN "nil" ELSE "err")]
    /\ UNCHANGED <<clients, mgr, acct, cancels, mu, pc, owner,
                   fetchVars, crashed, srvVars, dbVars, parentDone, restore, handlerVars>>

\* Manager.GetStatus: RLock and the lookup; for a missing entry the return.
GetStatusBegin(id) ==
    /\ ~crashed
    /\ LockFree
    /\ mgr' = IF Exists(id) THEN Call("status", id, clients[id], "flag")
              ELSE Return("status", id, Nil, GetStatus(id))
    /\ UNCHANGED <<clients, sessVars, fetchVars, netVars, crashed, srvVars, dbVars>>
    /\ UNCHANGED <<callVars, stopVars>>

\* Manager.GetStatus: wrapper.client.IsConnected() (Lock, read, Unlock of
\* c.mu) and the return; m.mu was read-locked all along.
GetStatusRead ==
    /\ ~crashed
    /\ mgr.op = "status" /\ mgr.pc = "flag"
    /\ mu[mgr.s] = "free"
    /\ mgr' = Return("status", mgr.id, mgr.s, GetStatus(mgr.id))
    /\ UNCHANGED <<clients, sessVars, fetchVars, netVars, crashed, srvVars, dbVars>>
    /\ UNCHANGED <<callVars, stopVars>>

\* Account Peer is registered and running, added with last_uid 0.
InitRegistry == InitAccounts /\ lastUID[1] = 0

\* Peer runs; the accounts of Accounts are added and all accounts are
\* asked for their status, and StopAll runs.
NextRegistry ==
    \/ \E id \in Accounts : AddBegin(id)
    \/ AddConnect
    \/ AddSelect
    \/ StopAllPick
    \/ MgrStop
    \/ MgrClose
    \/ \E id \in AllAccounts : GetStatusBegin(id)
    \/ GetStatusRead
    \/ \E s \in Sessions : CycleStep(s)
    \/ \E s \in Sessions : ReconnectStep(s)

SpecRegistry == InitRegistry /\ [][NextRegistry]_vars

\* Peer runs; the accounts of Accounts are added and removed while the
\* handlers call TestConnection.
NextTest ==
    \/ \E id \in Accounts : AddBegin(id)
    \/ AddConnect
    \/ AddSelect
    \/ \E id \in Accounts : RemoveBegin(id)
    \/ MgrStop
    \/ MgrClose
    \/ \E p \in Callers : TestBegin(p)
    \/ \E p \in Callers : TestSelect(p)
    \/ \E s \in Sessions : CycleStep(s)
    \/ \E s \in Sessions : ReconnectStep(s)

SpecTest == InitRegistry /\ [][NextTest]_vars

\* ----------------------------------------------------------- RestoreAll
restoreFrame == <<clients, mgr, sessVars, fetchVars, netVars, crashed, srvVars, dbVars,
                  ops, parentDone, handlerVars, stopVars>>

\* Manager.RestoreAll called with the accounts accs: wg.Add and the go
\* statement for each of them.
RestoreBegin(accs) ==
    /\ ~crashed
    /\ restore.pc = "idle"
    /\ restore' = [restore EXCEPT !.pc = "run", !.accs = accs, !.todo = accs]
    /\ UNCHANGED restoreFrame

\* The goroutine of account id is the next one to get m.mu inside
\* AddAccount (AddAccount holds it from entry to return, so the calls run
\* one after the other, in any order).
RestoreGo(id) ==
    /\ ~crashed
    /\ restore.pc = "run" /\ restore.cur = Nil
    /\ id \in restore.todo
    /\ restore' = [restore EXCEPT !.cur = id, !.todo = @ \ {id}]
    /\ UNCHANGED restoreFrame

\* m.AddAccount(ctx, acc) of that goroutine begins.
RestoreCall ==
    /\ restore.cur # Nil
    /\ mgr.id # restore.cur
    /\ AddBegin(restore.cur)

\* AddAccount returned to the goroutine: the error is logged, wg.Done().
RestoreCollect ==
    /\ ~crashed
    /\ restore.cur # Nil
    /\ mgr.op = "add" /\ mgr.id = restore.cur /\ mgr.pc = "ret"
    /\ restore' = [restore EXCEPT !.cur = Nil, !.res[restore.cur] = mgr.res]
    /\ UNCHANGED restoreFrame

\* RestoreAll returning without wg.Wait()
RestoreReturnNoWait ==
    /\ ~crashed
    /\ restore.pc = "run" /\ restore.cur = Nil
    /\ restore' = [restore EXCEPT !.pc = "done"]
    /\ UNCHANGED restoreFrame

\* wg.Wait() returns, and RestoreAll with it.
RestoreReturn ==
    /\ ~crashed
    /\ restore.pc = "run" /\ restore.cur = Nil /\ restore.todo = {}
    /\ restore' = [restore EXCEPT !.pc = "done"]
    /\ UNCHANGED restoreFrame

\* main at start-up: the registry is empty and RestoreAll is the only
\* caller of the Manager; the loops of the accounts already restored run.
NextRestore ==
    \/ \E accs \in (SUBSET AllAccounts) \ {{}} : RestoreBegin(accs)
    \/ \E id \in AllAccounts : RestoreGo(id)
    \/ RestoreCall
    \/ AddConnect
    \/ AddSelect
    \/ RestoreCollect
    \/ RestoreReturn
    \/ \E s \in Sessions : CycleStep(s)

SpecRestore == Init /\ [][NextRestore]_vars

\* ===================================================== ResolveIMAPServer
\* unnamed/part_003.  A host name is the sequence of its labels
\* ("imap.Corp.Test" is <<"imap", "Corp", "Test">>, a trailing dot is a
\* last label ""), an address is the sequence of the pieces between its
\* "@" signs, an endpoint is a host and a port.

\* strings.ToLower on one label
ToLowerLabel(l) ==
    CASE l = "Gmail" -> "gmail"
      [] l = "COM" -> "com"
      [] l = "Corp" -> "corp"
      [] l = "Test" -> "test"
      [] OTHER -> l

\* strings.ToLower on a host name
ToLower(d) == [i \in 1..Len(d) |-> ToLowerLabel(d[i])]

\* two entries of the provider table
knownIMAPServers ==
    (<<"gmail", "com">> :> [host |-> <<"imap", "gmail", "com">>, port |-> 993])
    @@ (<<"proton", "me">> :> [host |-> <<"127", "0", "0", "1">>, port |-> 1143])

\* the domains addresses are written with
TypedDomains ==
    {<<"gmail", "com">>, <<"Gmail", "COM">>, <<"proton", "me">>,
     <<"corp", "test">>, <<"Corp", "Test">>, <<"host", "test">>,
     <<"mail", "corp", "test">>}

\* the arguments of ResolveIMAPServer: no "@", one "@", two "@"
Emails ==
    {<<"user">>} \cup {<<"user", d>> : d \in TypedDomains}
                 \cup {<<"user", "x", d>> : d \in {<<"corp", "test">>}}

\* what net.LookupMX can give: an error, no record, or records of which
\* the first is the primary exchanger (names come with their final dot)
MXAnswers ==
    {[err |-> TRUE, hosts |-> <<>>], [err |-> FALSE, hosts |-> <<>>]}
    \cup {[err |-> FALSE, hosts |-> <<h>>] :
            h \in {<<"mx", "host", "test", "">>, <<"mx", "corp", "test">>, <<"localhost", "">>}}
    \cup {[err |-> FALSE, hosts |-> << <<"mx", "corp", "test", "">>, <<"mx", "host", "test", "">> >>]}

\* `host + ":993"`
Endpoint(host) == [host |-> host, port |-> 993]

\* the three patterns tried for a domain, in their order
Patterns(d) == << <<"imap">> \o d, <<"mail">> \o d, d >>

\* strings.TrimSuffix(host, ".")
TrimDot(h) == IF h # <<>> /\ h[Len(h)] = "" THEN SubSeq(h, 1, Len(h) - 1) ELSE h

\* resolveViaMX: the hosts it probes for an answer of LookupMX, in their
\* order (none when the primary exchanger's name has a single label)
MXCandidates(mx) ==
    IF mx.err \/ mx.hosts = <<>> \/ Len(TrimDot(mx.hosts[1])) < 2 THEN <<>>
    ELSE << <<"imap">> \o Tail(TrimDot(mx.hosts[1])), <<"mail">> \o Tail(TrimDot(mx.hosts[1])) >>

\* the call of ResolveIMAPServer that returned value, err
Resolved(value, err) == [resolve EXCEPT !.pc = "ret", !.result = value, !.err = err]

resolveFrame == <<clients, mgr, sessVars, fetchVars, netVars, crashed, srvVars, dbVars,
                  ops, parentDone, restore, emailAccounts, handlers, stopVars>>

\* ResolveIMAPServer(email) is called.
ResolveBegin(email) ==
    /\ resolve.pc \in {"idle", "ret"}
    /\ resolve' = [pc |-> "split", email |-> email, domain |-> <<>>, i |-> 1,
                   probes |-> <<>>, lookups |-> 0, mx |-> [err |-> FALSE, hosts |-> <<>>],
                   result |-> Nil, err |-> FALSE]
    /\ UNCHANGED resolveFrame

\* ResolveIMAPServer looking the domain up as it was typed
ResolveSplitNoLower ==
    /\ resolve.pc = "split"
    /\ resolve' =
        IF Len(resolve.email) # 2 THEN Resolved(Nil, TRUE)
        ELSE IF resolve.email[2] \in DOMAIN knownIMAPServers
             THEN Resolved(knownIMAPServers[resolve.email[2]], FALSE)
             ELSE [resolve EXCEPT !.pc = "patterns", !.domain = ToLower(resolve.email[2])]
    /\ UNCHANGED resolveFrame

\* Lines 43-53: the split at "@", the lower-cased domain, the table.
ResolveSplit ==
    /\ resolve.pc = "split"
    /\ resolve' =
        IF Len(resolve.email) # 2 THEN Resolved(Nil, TRUE)
        ELSE IF ToLower(resolve.email[2]) \in DOMAIN knownIMAPServers
             THEN Resolved(knownIMAPServers[ToLower(resolve.email[2])], FALSE)
             ELSE [resolve EXCEPT !.pc = "patterns", !.domain = ToLower(resolve.email[2])]
    /\ UNCHANGED resolveFrame

\* the probe of host answered ok (checkIMAPServer: a dial with a 3 s timeout)
Probed(host, ok) == Append(resolve.probes, [host |-> host, ok |-> ok])

\* the pattern loop going on after a reachable pattern
ResolvePatternNoStop ==
    /\ resolve.pc = "patterns"
    /\ \E ok \in BOOLEAN :
        resolve' =
            IF resolve.i = 3
            THEN IF ok THEN [Resolved(Endpoint(Patterns(resolve.domain)[resolve.i]), FALSE)
                                EXCEPT !.probes = Probed(Patterns(resolve.domain)[resolve.i], ok)]
                 ELSE [resolve EXCEPT !.probes = Probed(Patterns(resolve.domain)[resolve.i], ok),
                                      !.pc = "mx"]
            ELSE [resolve EXCEPT !.probes = Probed(Patterns(resolve.domain)[resolve.i], ok),
                                 !.i = @ + 1]
    /\ UNCHANGED resolveFrame

\* Lines 62-67: one turn of the loop over the patterns.
ResolvePattern ==
    /\ resolve.pc = "patterns"
    /\ \E ok \in BOOLEAN :
        resolve' =
            IF ok THEN [Resolved(Endpoint(Patterns(resolve.domain)[resolve.i]), FALSE)
                            EXCEPT !.probes = Probed(Patterns(resolve.domain)[resolve.i], ok)]
            ELSE [resolve EXCEPT !.probes = Probed(Patterns(resolve.domain)[resolve.i], ok),
                                 !.i = IF @ = 3 THEN 1 ELSE @ + 1,
                                 !.pc = IF resolve.i = 3 THEN "mx" ELSE "patterns"]
    /\ UNCHANGED resolveFrame

\* resolveViaMX lines 92-103: net.LookupMX; without a usable answer
\* resolveViaMX returns an error and ResolveIMAPServer its default.
ResolveMX ==
    /\ resolve.pc = "mx"
    /\ \E mx \in MXAnswers :
        resolve' =
            IF MXCandidates(mx) = <<>>
            THEN [Resolved(Endpoint(Patterns(resolve.domain)[1]), FALSE)
                    EXCEPT !.mx = mx, !.lookups = @ + 1]
            ELSE [resolve EXCEPT !.mx = mx, !.lookups = @ + 1, !.pc = "mxprobe", !.i = 1]
    /\ UNCHANGED resolveFrame

\* resolveViaMX lines 104-117 and the return of ResolveIMAPServer: the
\* probe of imap.base, then of mail.base, then the default.
ResolveMXProbe ==
    /\ resolve.pc = "mxprobe"
    /\ \E ok \in BOOLEAN :
        resolve' =
            IF ok THEN [Resolved(Endpoint(MXCandidates(resolve.mx)[resolve.i]), FALSE)
                            EXCEPT !.probes = Probed(MXCandidates(resolve.mx)[resolve.i], ok)]
            ELSE IF resolve.i = 1
            THEN [resolve EXCEPT !.probes = Probed(MXCandidates(resolve.mx)[resolve.i], ok),
                                 !.i = 2]
            ELSE [Resolved(Endpoint(Patterns(resolve.domain)[1]), FALSE)
                    EXCEPT !.probes = Probed(MXCandidates(resolve.mx)[resolve.i], ok)]
    /\ UNCHANGED resolveFrame

\* Calls of ResolveIMAPServer, one after the other.
NextResolve ==
    \/ \E email \in Emails : ResolveBegin(email)
    \/ ResolveSplit
    \/ ResolvePattern
    \/ ResolveMX
    \/ ResolveMXProbe

SpecResolve == Init /\ [][NextResolve]_vars

\* ============================================= Bot.onNewEmail, step by step
\* The message callback as the goroutines of the sessions run it, with the
\* moments at which another callback can run in between: the INSERT OR
\* IGNORE of DB.CreateMessage is one statement of the database, the chat
\* send and the last_uid UPDATE come after it.  p is the goroutine, o what
\* the collaborators answer (see CallbackOutcomes).

callbackFrame == <<clients, mgr, sessVars, fetchVars, netVars, crashed, srvVars,
                   parentDone, restore, handlerVars, stopVars>>

\* onNewEmail sending although the row was already there
CallbackInsertNoUnique(p, id, uid, o) ==
    /\ CallerFree(p)
    /\ IF o \in {"geterr", "dberr"}
       THEN /\ ops' = [ops EXCEPT ![p] = Returned("callback", Nil, "err")]
            /\ UNCHANGED rows
       ELSE /\ rows' = rows \cup {<<id, uid>>}
            /\ ops' = [ops EXCEPT ![p] = About(InCall("callback", Nil, Nil, "send"), id, uid)]
    /\ UNCHANGED <<chatSent, dbLastUID, callbackFrame>>

\* config.go lines 82-137: GetAccountByID, CreateMessage and the returns
\* on their errors; ErrAlreadyExists when the INSERT affected no row.
CallbackInsert(p, id, uid, o) ==
    /\ CallerFree(p)
    /\ IF o \in {"geterr", "dberr"}
       THEN /\ ops' = [ops EXCEPT ![p] = Returned("callback", Nil, "err")]
            /\ UNCHANGED rows
       ELSE IF AlreadyExists(id, uid)
       THEN /\ ops' = [ops EXCEPT ![p] = Returned("callback", Nil, "exists")]
            /\ UNCHANGED rows
       ELSE /\ rows' = rows \cup {<<id, uid>>}
            /\ ops' = [ops EXCEPT ![p] = About(InCall("callback", Nil, Nil, "send"), id, uid)]
    /\ UNCHANGED <<chatSent, dbLastUID, callbackFrame>>

\* config.go lines 139-164: the chat send, the return on its error, the
\* UPDATE of last_uid (its error is logged).
CallbackSend(p, o) ==
    /\ ops[p].op = "callback" /\ ops[p].pc = "send"
    /\ chatSent' = IF o = "sendfail" THEN chatSent
                   ELSE [chatSent EXCEPT ![<<ops[p].id, ops[p].uid>>] = @ + 1]
    /\ dbLastUID' = IF o = "ok" THEN [dbLastUID EXCEPT ![ops[p].id] = ops[p].uid] ELSE dbLastUID
    /\ ops' = [ops EXCEPT ![p] = Returned("callback", Nil, IF o = "sendfail" THEN "err" ELSE "sent")]
    /\ UNCHANGED <<rows, callbackFrame>>

\* The goroutines of the sessions of one account in the message callback,
\* for any message and any number of times.
NextCallback ==
    \/ \E p \in Callers : \E uid \in UIDs : \E o \in {"geterr", "dberr", "ok"} :
            CallbackInsert(p, TheAccount, uid, o)
    \/ \E p \in Callers : \E o \in {"sendfail", "updfail", "ok"} : CallbackSend(p, o)

SpecCallback == InitFetch /\ [][NextCallback]_vars

\* ===================================================== the two locks
\* AddAccount called when no task of an earlier session is running any
\* more (the locks of two sessions do not depend on each other).
AddAfterExit(id) ==
    /\ \A s \in Sessions : pc[s] \in {"none", "exit"}
    /\ AddBegin(id)

\* Every operation that takes m.mu or c.mu, together: AddAccount,
\* RemoveAccount, StopAll and GetStatus of the Manager, MarkAsRead and
\* DeleteMessage of a handler, and the goroutines of the sessions.
NextLocks ==
    \/ FlagStep(TheCaller)
    \/ AddAfterExit(TheAccount)
    \/ AddConnect
    \/ AddSelect
    \/ RemoveBegin(TheAccount)
    \/ StopAllPick
    \/ MgrStop
    \/ MgrClose
    \/ GetStatusBegin(TheAccount)
    \/ GetStatusRead
    \/ \E s \in Sessions : CycleStep(s)
    \/ \E s \in Sessions : ReconnectStep(s)

SpecLocks == InitFetch /\ [][NextLocks]_vars

\* ============================================== /connect and /create
\* Bot.handleConnect and Bot.handleCreate in one chat: both check the
\* topic, insert the account and start its Session in the same way.
\* emailAccounts is the table email_accounts: id -> topic_id of the row;
\* ids come from AUTOINCREMENT and are not given twice.

\* the topics (message threads) of the chat
Topics == 1..2

\* the id of a row that was deleted
Deleted == 0 - 1

\* the rows of email_accounts bound to topic
AccountsOf(topic) == {id \in AllAccounts : emailAccounts[id] = topic}

UnusedIDs == {id \in AllAccounts : emailAccounts[id] = Nil}
NewAccountID == CHOOSE id \in UnusedIDs : \A other \in UnusedIDs : id <= other

\* the handler of p has returned with res
CommandDone(p, res) == [handlers EXCEPT ![p].pc = "ret", ![p].res = res]

commandFrame == <<clients, mgr, sessVars, fetchVars, netVars, crashed, srvVars, dbVars,
                  ops, parentDone, restore, resolve, stopVars>>

\* A /connect or /create message arrives in topic and gets its handler.
CommandBegin(p, topic) ==
    /\ handlers[p].pc \in {"idle", "ret"}
    /\ handlers' = [handlers EXCEPT ![p] = [pc |-> "check", topic |-> topic, id |-> Nil, res |-> "none"]]
    /\ UNCHANGED <<emailAccounts, commandFrame>>

\* GetAccountByChatAndTopic and the reply when the topic has an account;
\* then TestConnection (or Mailcow's CreateMailbox) and the password
\* encryption, answering ok or not.
CommandCheck(p) ==
    /\ handlers[p].pc = "check"
    /\ \E ok \in BOOLEAN :
        handlers' = IF AccountsOf(handlers[p].topic) # {} THEN CommandDone(p, "exists")
                    ELSE IF ok THEN [handlers EXCEPT ![p].pc = "insert"]
                    ELSE CommandDone(p, "err")
    /\ UNCHANGED <<emailAccounts, commandFrame>>

\* DB.CreateAccount on a table without UNIQUE(chat_id, topic_id)
CommandInsertNoUnique(p) ==
    /\ handlers[p].pc = "insert"
    /\ UnusedIDs # {}
    /\ emailAccounts' = [emailAccounts EXCEPT ![NewAccountID] = handlers[p].topic]
    /\ handlers' = [handlers EXCEPT ![p].pc = "add", ![p].id = NewAccountID]
    /\ UNCHANGED commandFrame

\* DB.CreateAccount: the INSERT fails on UNIQUE(chat_id, topic_id) when
\* the topic has a row, and the handler replies and returns.
CommandInsert(p) ==
    /\ handlers[p].pc = "insert"
    /\ IF AccountsOf(handlers[p].topic) # {}
       THEN /\ handlers' = CommandDone(p, "dup")
            /\ UNCHANGED emailAccounts
       ELSE /\ UnusedIDs # {}
            /\ emailAccounts' = [emailAccounts EXCEPT ![NewAccountID] = handlers[p].topic]
            /\ handlers' = [handlers EXCEPT ![p].pc = "add", ![p].id = NewAccountID]
    /\ UNCHANGED commandFrame

\* the handler of p is in b.emailManager.AddAccount(ctx, account)
InAddAccount(p) == handlers[p].pc = "add" /\ mgr.op = "add" /\ mgr.id = handlers[p].id

\* b.emailManager.AddAccount(ctx, account) begins (m.mu.Lock()).
CommandAdd(p) ==
    /\ handlers[p].pc = "add"
    /\ \A q \in Callers : ~InAddAccount(q)
    /\ AddBegin(handlers[p].id)

\* AddAccount returned: on an error the row is deleted again.
CommandAdded(p) ==
    /\ InAddAccount(p) /\ mgr.pc = "ret"
    /\ emailAccounts' = IF mgr.res = "nil" THEN emailAccounts
                        ELSE [emailAccounts EXCEPT ![handlers[p].id] = Deleted]
    /\ handlers' = CommandDone(p, IF mgr.res = "nil" THEN "ok" ELSE "err")
    /\ UNCHANGED commandFrame

\* the goroutines of the two updates that carry the commands
Commanders == {p \in Callers : p <= 2}

\* The commands of one chat, handled concurrently.
NextCommands ==
    \/ \E p \in Commanders : \E topic \in Topics : CommandBegin(p, topic)
    \/ \E p \in Commanders : CommandCheck(p)
    \/ \E p \in Commanders : CommandInsert(p)
    \/ \E p \in Commanders : CommandAdd(p)
    \/ AddConnect
    \/ AddSelect
    \/ \E p \in Commanders : CommandAdded(p)

SpecCommands == Init /\ [][NextCommands]_vars

\* the goroutine of the session has been started and has not returned
TaskRunning(s) == pc[s] \notin {"none", "exit"}

\* the session holds a handle to a transport that is open
HoldsOpenTransport(s) == client[s] # Nil /\ tstate[client[s]] = "open"

LiveSession(s) == acct[s] # Nil /\ TaskRunning(s) /\ HoldsOpenTransport(s)

OpenedBy(s) == {t \in Transports : owner[t] = s}

\* C1: in every reachable state at most one live Session (an open
\* connection together with a running background task) exists per account
\* identifier.
C1_AtMostOneLiveSession ==
    \A id \in Accounts : Cardinality({s \in Sessions : acct[s] = id /\ LiveSession(s)}) <= 1

\* C2: concurrent AddAccount calls for one id leave one registered Session,
\* one connection and one background task: every session whose task was
\* started and whose cancellation never fired is the registered one; and
\* an AddAccount that begins while the id is registered returns nil and
\* changes nothing (no client, no transport, no task, no registry change).
C2_StartedIsRegistered ==
    \A s \in Sessions : (pc[s] # "none" /\ cancels[s] = 0) => clients[acct[s]] = s

C2_AddExistingChangesNothing ==
    (LockFree /\ mgr' # mgr /\ mgr'.op = "add" /\ Exists(mgr'.id))
        => /\ mgr' = Return("add", mgr'.id, Nil, "nil")
           /\ UNCHANGED <<clients, sessVars, fetchVars, netVars, crashed, srvVars, dbVars>>

C2_ConcurrentAddOneSession ==
    [](C2_StartedIsRegistered) /\ [][C2_AddExistingChangesNothing]_vars

\* an AddAccount found the id registered and returned nil, while the
\* session registered by another AddAccount runs on its one transport
C2_Witness ==
    /\ mgr = Return("add", mgr.id, Nil, "nil")
    /\ mgr.op = "add"
    /\ Exists(mgr.id)
    /\ LiveSession(clients[mgr.id])
    /\ Cardinality(OpenedBy(clients[mgr.id])) = 1
    /\ Cardinality({s \in Sessions : acct[s] = mgr.id}) = 1

\* C3: every message returned by FetchNewMessages(since) has an identifier
\* strictly greater than since.
C3_FetchedAboveSince ==
    \A s \in Sessions : \A i \in 1..Len(batch[s]) : batch[s][i] > since[s]

\* C4: the tracked identifier of a session's background task never
\* decreases, whatever identifiers and order the fetched batches have.
C4_TrackedUIDMonotonic ==
    [][\A s \in Sessions : lastUID'[s] >= lastUID[s]]_vars

\* a batch whose next message is below the tracked identifier
C4_Witness ==
    \E s \in Sessions : pc[s] = "fDeliver" /\ lastUID[s] > 0 /\ Head(batch[s]) < lastUID[s]

\* C5: when a select or fetch of a running session fails with a transport
\* error, the session is marked disconnected by the time its loop resumes
\* (GetStatus returns reconnecting).
C5_TransportErrorMarksDisconnected ==
    [][\A s \in Sessions :
        (pc[s] = "onErr" /\ pc'[s] = "top" /\ ~stopped'[s] /\ clients'[acct[s]] = s)
            => (~connected'[s] /\ GetStatus(acct[s])' = "reconnecting")]_vars

\* C6: no message handed to the message callback is skipped for good: a
\* message whose row exists (every later callback for it stops at
\* ErrAlreadyExists) has been forwarded to the chat.
C6_PersistedIsForwarded ==
    \A id \in Accounts : \A uid \in UIDs :
        AlreadyExists(id, uid) => chatSent[<<id, uid>>] >= 1

\* C7: when connect, authenticate or select fails during AddAccount, the
\* call returns the error, the registry has no entry for the id, no
\* background task was started, and every transport the attempt opened is
\* released (closed by Connect, or handed to the teardown of Stop).
C7_FailedAddLeavesNothing ==
    (mgr.op = "add" /\ mgr.pc = "ret" /\ mgr.res = "err")
        => /\ ~Exists(mgr.id)
           /\ \A id \in Accounts : clients[id] # mgr.s
           /\ pc[mgr.s] = "none"
           /\ client[mgr.s] = Nil
           /\ ~connected[mgr.s]
           /\ \A t \in OpenedBy(mgr.s) : tstate[t] \in {"closed", "teardown"}

\* the select of an AddAccount failed after its connect had succeeded
C7_Witness ==
    /\ mgr.op = "add" /\ mgr.pc = "ret" /\ mgr.res = "err"
    /\ \E t \in OpenedBy(mgr.s) : tstate[t] = "teardown"

\* C8: after RemoveAccount(id) has returned for an id with a live Session,
\* the Session's cancellation has fired, its client is stopped (handle
\* cleared, connected flag false), the registry has no entry for id and
\* GetStatus(id) is disconnected.
C8_RemovedIsStopped ==
    (mgr.op = "remove" /\ mgr.pc = "ret" /\ mgr.s # Nil)
        => /\ cancels[mgr.s] >= 1
           /\ stopped[mgr.s] /\ stopCh[mgr.s]
           /\ client[mgr.s] = Nil /\ ~connected[mgr.s]
           /\ ~Exists(mgr.id)
           /\ GetStatus(mgr.id) = "disconnected"

\* C9: once a new Session is registered for an id whose earlier Session
\* was removed, the new transport is none of the removed Session's, the
\* removed Session's cancellation fired exactly once, and no transport the
\* removed Session opened (before or after its removal) is open.
C9_RemovedSessionReleased ==
    \A old \in Sessions :
        (acct[old] # Nil /\ cancels[old] > 0 /\ Exists(acct[old]) /\ clients[acct[old]] # old)
            => /\ cancels[old] = 1
               /\ client[clients[acct[old]]] \notin OpenedBy(old)
               /\ \A t \in OpenedBy(old) : tstate[t] # "open"
               /\ Cardinality(OpenedBy(old)) <= 1

\* C10: Stopped is terminal: a Session on which Stop() has run keeps its
\* connected flag false and its connection handle empty.
C10_StoppedIsTerminal ==
    \A s \in Sessions : stopped[s] => (~connected[s] /\ client[s] = Nil)

\* AddAccount is between its NewClient and its return with session s
BeingAdded(s) == mgr.op = "add" /\ mgr.pc \in {"connect", "select"} /\ mgr.s = s

\* Stop has taken transport t out of its Client and not yet started the
\* goroutine that logs it out
BeingStopped(t) == mgr.op \in {"remove", "stopall"} /\ mgr.pc = "close" /\ mgr.tr = t

\* C11: no transport stays open without a registered, non-stopped Session
\* owning it: every open transport belongs to a session that is not
\* stopped and is registered (or is inside the AddAccount that created
\* it), or is the transport the running Stop is about to log out.
C11_OpenTransportHasLiveOwner ==
    \A t \in Transports :
        tstate[t] = "open"
            => \/ BeingStopped(t)
               \/ /\ ~stopped[owner[t]]
                  /\ client[owner[t]] = t
                  /\ (clients[acct[owner[t]]] = owner[t] \/ BeingAdded(owner[t]))

\* the Stop() calls on s that are past the test of c.stopped and have not
\* yet closed the stop signal
StopWorkers(s) == {p \in Callers : ops[p].op = "stop" /\ ops[p].pc = "close" /\ ops[p].s = s}

\* the Stop() calls on s that have returned
StopReturned(s) == {p \in Callers : ops[p].op = "stop" /\ ops[p].pc = "ret" /\ ops[p].s = s}

\* C12: for any number of sequential or concurrent Stop() calls on one
\* Session, exactly one call closes the stop signal and starts the logout
\* of the transport; every other call returns without touching either, and
\* no call fails (the stop signal is never closed twice).
C12_StopOnce ==
    /\ \A s \in Sessions :
        /\ closes[s] + Cardinality(StopWorkers(s)) <= 1
        /\ StopReturned(s) # {} => closes[s] + Cardinality(StopWorkers(s)) = 1
        /\ \A p \in StopReturned(s) : ops[p].res = "nil" /\ stopped[s]
    /\ \A t \in Transports : teardowns[t] <= 1

\* two Stop() calls on one session have returned; the signal was closed
\* once and the transport logged out once
C12_Witness ==
    \E s \in Sessions :
        /\ Cardinality(StopReturned(s)) >= 2
        /\ closes[s] = 1
        /\ \E t \in Transports : owner[t] = s /\ teardowns[t] = 1

\* the operations that are executing on the connection of session s: the
\* flag mutations in flight and the UID FETCH of the loop in flight
Executing(s) ==
    {p \in Callers : ops[p].op \in {"mark", "delete"} /\ ops[p].pc = "io" /\ ops[p].s = s}
        \cup (IF pc[s] = "fFetchIO" THEN {0} ELSE {})

\* C13: at most one of connect, select, fetch, mark-read and delete is
\* executing on a Session's connection at any instant.
C13_OneOperationPerConnection ==
    \A s \in Sessions : Cardinality(Executing(s)) <= 1

\* a Manager operation is between m.mu.Lock() and its return
HoldsRegistryLock == ~LockFree

\* AddAccount is at its client.Connect or client.SelectINBOX call
MgrNetworkCall == mgr.op = "add" /\ mgr.pc \in {"connect", "select"}

\* the Stop() of RemoveAccount / StopAll is at c.mu.Lock()
MgrAtStop == mgr.op \in {"remove", "stopall"} /\ mgr.pc = "stop"

\* C14: the registry lock is held only for map lookup and mutation: no
\* Manager operation that holds it is performing a network call or is
\* waiting for a network call on a session to finish.
C14_NoNetworkUnderRegistryLock ==
    HoldsRegistryLock => (~MgrNetworkCall /\ ~(MgrAtStop /\ Executing(mgr.s) # {}))

\* C15: while one account's connect or select is stalled inside
\* AddAccount, the Manager operations for every other account can still be
\* carried out: RemoveAccount and AddAccount can take the registry lock,
\* and MarkAsRead / DeleteMessage (and GetStatus, which reads under the
\* same lock) can do their lookup.
C15_OtherAccountsNotBlocked ==
    \A id \in AllAccounts :
        (MgrNetworkCall /\ mgr.id # id)
            => /\ ENABLED RemoveBegin(id)
               /\ ENABLED AddBegin(id)
               /\ \A p \in Callers : CallerFree(p) => ENABLED OpBegin(p, "mark", id)

\* a step of RemoveAccount
RemoveActs == mgr' # mgr /\ mgr'.op = "remove"

\* C16: RemoveAccount(id) leaves every other account's registry entry,
\* cancellation signal, connected flag and tracked identifier unchanged.
C16_RemoveLeavesOthers ==
    [][RemoveActs =>
        \A id \in AllAccounts \ {mgr'.id} :
            /\ clients'[id] = clients[id]
            /\ Exists(id) =>
                /\ cancels'[clients[id]] = cancels[clients[id]]
                /\ connected'[clients[id]] = connected[clients[id]]
                /\ stopped'[clients[id]] = stopped[clients[id]]
                /\ stopCh'[clients[id]] = stopCh[clients[id]]
                /\ lastUID'[clients[id]] = lastUID[clients[id]]]_vars

\* RemoveAccount has returned for an account whose session was failing in
\* its fetch cycle, and another account is registered, connected, not
\* cancelled, tracking a non-zero identifier
C16_Witness ==
    /\ mgr.op = "remove" /\ mgr.pc = "ret" /\ mgr.s # Nil
    /\ pc[mgr.s] = "onErr"
    /\ \E id \in AllAccounts \ {mgr.id} :
        /\ Exists(id)
        /\ connected[clients[id]] /\ cancels[clients[id]] = 0
        /\ lastUID[clients[id]] > 0

\* C19: cancelling the parent shutdown signal given to AddAccount /
\* RestoreAll cancels the signal of every registered Session.
C19_ParentCancelsSessions ==
    parentDone => \A id \in Registered : Cancelled(clients[id])

\* C17: RemoveAccount and StopAll return without waiting for an in-flight
\* fetch or flag mutation on the Session: whenever their Stop() reaches
\* c.mu.Lock(), c.mu is free.
C17_StopDoesNotWaitForFetch ==
    MgrAtStop => mu[mgr.s] = "free"

\* C18: once a Session's cancellation signal has fired or its stop signal
\* has been closed, the loop starts no further fetch: fetchNewMessages is
\* not entered again.
C18_NoFetchAfterCancel ==
    [][\A s \in Sessions :
        (Cancelled(s) \/ stopCh[s]) => ~(pc[s] # "fSel" /\ pc'[s] = "fSel")]_vars

\* a wait of the loop of s completes
WaitCompletes(s) == pc[s] = "wait" /\ pc'[s] # "wait"

\* fetchNewMessages is entered by the goroutine of s
FetchAttempt(s) == pc[s] # "fSel" /\ pc'[s] = "fSel"

\* C20: while a Session is registered and neither cancelled nor stopped,
\* every completed wait is followed by exactly one fetch attempt, made
\* with the current tracked identifier: a wait that completes enters
\* fetchNewMessages, fetchNewMessages is entered only from a wait (or by
\* runClient when the goroutine starts), its
\* FetchNewMessages call carries lastUID; and under fair scheduling the
\* waits and the fetch attempts recur for ever.
C20_WaitThenFetch ==
    /\ [][\A s \in Sessions :
            /\ (WaitCompletes(s) /\ ~Cancelled(s) /\ ~stopCh[s]) => FetchAttempt(s)
            /\ FetchAttempt(s) => (WaitCompletes(s) \/ pc[s] = "none")
            /\ (pc[s] = "fSel" /\ pc'[s] = "fFetchIO") => since'[s] = lastUID[s]]_vars
    /\ \A s \in Sessions :
        [](TaskRunning(s) => (<>(pc[s] = "wait") /\ <>(pc[s] = "fSel")))

\* the loop has completed a wait and made its fetch with a tracked
\* identifier that the earlier cycles advanced
C20_Witness ==
    \E s \in Sessions : pc[s] = "fFetchIO" /\ since[s] > 0 /\ since[s] = lastUID[s]

\* the goroutine of s returns from StartIDLE
LoopExits(s) == pc[s] # "exit" /\ pc'[s] = "exit"

\* C21: the notification loop terminates only after observing
\* cancellation or the stop signal, in one of its two selects; after a
\* failed reconnect or a failed select after reconnect the loop is at its
\* top again, never at its exit.
C21_ExitOnlyOnSignal ==
    [][\A s \in Sessions :
        /\ LoopExits(s) => ((Cancelled(s) \/ stopCh[s]) /\ pc[s] \in {"top", "wait"})
        /\ (pc[s] \in {"reconn", "reSel"} /\ pc'[s] # pc[s])
                => pc'[s] \in {"reSel", "unlock", "top"}]_vars

\* a reconnect of the loop failed after its dial (the transport it opened
\* was released) and the loop is back at its top
C21_Witness ==
    \E s \in Sessions :
        /\ pc[s] = "top"
        /\ Cardinality(OpenedBy(s)) >= 2
        /\ \E t \in OpenedBy(s) : tstate[t] = "closed"

\* C23: within one fetch batch the message callbacks of an account are
\* invoked in strictly ascending identifier order: the messages that
\* fetchNewMessages is about to hand to the callback are ascending.
C23_BatchAscending ==
    \A s \in Sessions :
        \A i \in 1..Len(batch[s]) : \A j \in 1..Len(batch[s]) :
            i < j => batch[s][i] < batch[s][j]

\* a select, fetch or reconnect of the loop of s fails in this step
FailedStep(s) ==
    \/ pc[s] \in {"fSel", "fFetchIO"} /\ pc'[s] = "onErr"
    \/ pc[s] \in {"reconn", "reSel"} /\ pc'[s] = "top"

\* C24: every failed select, failed fetch and failed reconnect of a
\* started account's loop leads to an invocation of the error callback
\* for that account: the step in which it fails takes the goroutine to
\* the call of m.onError.
C24_FailureIsReported ==
    [][\A s \in Sessions : FailedStep(s) => pc'[s] = "onErr"]_vars

\* C22: a message that fails to parse is skipped: no message whose body
\* cannot be read is among the messages FetchNewMessages returns for
\* delivery (and so the tracked identifier does not advance to it).
C22_MalformedSkipped ==
    \A s \in Sessions :
        \A i \in 1..Len(batch[s]) : <<acct[s], batch[s][i]>> \notin bad

\* a step of a TestConnection call
TestActs == \E p \in Callers : ops'[p] # ops[p] /\ ops'[p].op = "test"

\* the transports the Client of session s ever opened are released or
\* handed to the teardown of Stop
Released(s) ==
    \A t \in Transports : owner[t] = s => tstate[t] \in {"closed", "teardown"}

C26_RestoreAllAttemptsAll ==
    restore.pc = "done" =>
        /\ restore.todo = {} /\ restore.cur = Nil
        /\ \A id \in restore.accs : restore.res[id] \in {"nil", "err"}
        /\ \A id \in AllAccounts : Exists(id) <=> restore.res[id] = "nil"

\* RestoreAll returned after one attempt failed and another, made after
\* the failure, succeeded
C26_Witness ==
    /\ restore.pc = "done"
    /\ \E a \in restore.accs : \E b \in restore.accs :
        /\ restore.res[a] = "err" /\ restore.res[b] = "nil"
        /\ mgr.id = b

\* StopAll has returned and no Manager call was made since
StopAllReturned == mgr.op = "stopall" /\ mgr.pc = "ret"

\* a Session that was registered at some time: its goroutine was started
WasRegistered(s) == pc[s] # "none"

\* C27: after StopAll returns the registry is empty, every Session that
\* was registered has had its cancel function called and its Client
\* stopped (Stop ran: stopped set, stop channel closed), and GetStatus
\* answers disconnected for every account id.
C27_StopAllStopsAll ==
    StopAllReturned =>
        /\ Registered = {}
        /\ \A s \in Sessions :
            WasRegistered(s) => (cancels[s] >= 1 /\ stopped[s] /\ stopCh[s])
        /\ \A id \in AllAccounts : GetStatus(id) = "disconnected"

\* StopAll returned after stopping two registered Sessions
C27_Witness ==
    /\ StopAllReturned
    /\ \E s \in Sessions : \E r \in Sessions :
        s # r /\ WasRegistered(s) /\ WasRegistered(r) /\ closes[s] = 1 /\ closes[r] = 1

\* a GetStatus call returns in this step
StatusReturns == mgr # mgr' /\ mgr'.op = "status" /\ mgr'.pc = "ret"

\* C28: GetStatus(id) returns "disconnected" exactly when there is no
\* Session registered for id, "connected" exactly when one is registered
\* and its connected flag is true, and "reconnecting" exactly when one is
\* registered and its flag is false (registry and flag as they are when
\* it returns).
C28_StatusReflectsRegistry ==
    [][StatusReturns =>
        /\ mgr'.res = "disconnected" <=> clients[mgr'.id] = Nil
        /\ mgr'.res = "connected"
                <=> (clients[mgr'.id] # Nil /\ connected[clients[mgr'.id]])
        /\ mgr'.res = "reconnecting"
                <=> (clients[mgr'.id] # Nil /\ ~connected[clients[mgr'.id]])]_vars

\* GetStatus returned "connected" for a registered account after having
\* waited for the Client's lock
C28_Witness ==
    /\ mgr.op = "status" /\ mgr.pc = "ret" /\ mgr.res = "connected"
    /\ Exists(mgr.id) /\ mgr.s = clients[mgr.id] /\ mgr.id \in Accounts

\* caller p begins a MarkAsRead / DeleteMessage call for an account that
\* has no registry entry
DropActs(p) ==
    /\ CallerFree(p) /\ ops'[p] # ops[p]
    /\ ops'[p].op \in {"mark", "delete"}
    /\ ~Exists(ops'[p].id)

\* the INBOX of account id or its \Deleted flags change by a command
Mutated(id) == flagged'[id] # flagged[id] \/ ~(mailbox[id] \subseteq mailbox'[id])

\* C29: MarkAsRead / DeleteMessage for an id without registered Session
\* returns nil at once, having touched no Client and changed nothing but
\* the caller's own result; and it is not applied later: every change of
\* a mailbox is made by a call that found a Session and is in flight on it.
C29_UnregisteredIsDropped ==
    /\ [][\A p \in Callers : DropActs(p) =>
            /\ ops'[p].pc = "ret" /\ ops'[p].res = "nil" /\ ops'[p].s = Nil
            /\ UNCHANGED <<clients, mgr, sessVars, fetchVars, netVars, crashed, srvVars,
                           dbVars, parentDone, restore, handlerVars, stopVars>>]_vars
    /\ [][\A id \in AllAccounts : Mutated(id) =>
            \E p \in Callers : /\ ops[p].pc = "io" /\ ops[p].id = id
                               /\ ops[p].s # Nil /\ acct[ops[p].s] = id]_vars

\* a DeleteMessage for the unregistered account was dropped; the account
\* was added afterwards and its loop has fetched the message, which is
\* still there
C29_Witness ==
    \E p \in Callers :
        /\ ops[p].op = "delete" /\ ops[p].pc = "ret" /\ ops[p].s = Nil
        /\ Exists(ops[p].id)
        /\ ops[p].uid \in mailbox[ops[p].id]
        /\ batch[clients[ops[p].id]] = <<ops[p].uid>>

\* FetchNewMessages of session s returns in this step
FetchReturns(s) == pc[s] = "fFetchIO" /\ pc'[s] # "fFetchIO"

\* C30: after a DeleteMessage(uid) that reached the server and returned
\* nil the message is not in the mailbox, a message that left the mailbox
\* never comes back, and FetchNewMessages returns nothing that is not in
\* the mailbox, whatever its sinceUID: no later fetch returns the message.
C30_DeletedStaysDeleted ==
    /\ [](\A p \in Callers :
            (ops[p].op = "delete" /\ ops[p].pc = "ret" /\ ops[p].res = "nil" /\ ops[p].s # Nil)
                => ops[p].uid \notin mailbox[ops[p].id])
    /\ [][\A id \in AllAccounts : \A u \in UIDs :
            (u < uidNext[id] /\ u \notin mailbox[id]) => u \notin mailbox'[id]]_vars
    /\ [][\A s \in Sessions : FetchReturns(s) =>
            \A i \in 1..Len(batch'[s]) : batch'[s][i] \in mailbox[acct[s]]]_vars

\* a message was deleted, and a fetch whose sinceUID is below its
\* identifier then returned other messages, some of them newer
C30_Witness ==
    \E p \in Callers : \E s \in Sessions :
        /\ ops[p].op = "delete" /\ ops[p].pc = "ret" /\ ops[p].res = "nil" /\ ops[p].s = s
        /\ ops[p].uid < uidNext[ops[p].id]
        /\ pc[s] = "fDeliver" /\ since[s] < ops[p].uid
        /\ \E i \in 1..Len(batch[s]) : batch[s][i] > ops[p].uid

\* C31: the persisted last-seen identifier of an account
\* (email_accounts.last_uid) never decreases, whatever callbacks run.
C31_PersistedUIDMonotonic ==
    [][\A id \in AllAccounts : dbLastUID'[id] >= dbLastUID[id]]_vars

\* ResolveIMAPServer has returned for an address with one "@"
ResolveReturned == resolve.pc = "ret" /\ Len(resolve.email) = 2

\* C32: for an address whose lower-cased domain is in the provider table
\* ResolveIMAPServer returns the table's endpoint without error, having
\* made no TCP probe and no MX lookup.
C32_KnownDomainFromTable ==
    \A d \in DOMAIN knownIMAPServers :
        (ResolveReturned /\ ToLower(resolve.email[2]) = d) =>
            /\ resolve.result = knownIMAPServers[d] /\ ~resolve.err
            /\ resolve.probes = <<>> /\ resolve.lookups = 0

\* the call for user@Gmail.COM returned imap.gmail.com:993
C32_Witness ==
    /\ ResolveReturned
    /\ resolve.email = <<"user", <<"Gmail", "COM">> >>
    /\ resolve.result = [host |-> <<"imap", "gmail", "com">>, port |-> 993]

\* the candidates of a domain in the order of the claim, given what the
\* MX lookup answered (if it was made)
Candidates(d, mx) == Patterns(d) \o MXCandidates(mx)

\* C33: for a well-formed address whose domain d is not in the table, the
\* hosts probed are the candidates imap.d, mail.d, d, imap.p, mail.p in
\* that order up to the first reachable one, which is returned with port
\* 993; the MX lookup is made once, after the three patterns failed; and
\* when every candidate failed (or there is none from MX) the result is
\* imap.d:993; no error is returned.
C33_FirstReachableCandidate ==
    (ResolveReturned /\ ToLower(resolve.email[2]) \notin DOMAIN knownIMAPServers) =>
        LET d == ToLower(resolve.email[2])
            cands == Candidates(d, resolve.mx)
            n == Len(resolve.probes)
        IN  /\ ~resolve.err
            /\ n >= 1 /\ n <= Len(cands)
            /\ \A i \in 1..n : resolve.probes[i].host = cands[i]
            /\ \A i \in 1..(n - 1) : ~resolve.probes[i].ok
            /\ resolve.lookups = (IF n > 3 \/ (n = 3 /\ ~resolve.probes[3].ok) THEN 1 ELSE 0)
            /\ IF resolve.probes[n].ok
               THEN resolve.result = [host |-> cands[n], port |-> 993]
               ELSE /\ n = Len(cands)
                    /\ resolve.result = [host |-> <<"imap">> \o d, port |-> 993]

\* the three patterns of Corp.Test and imap of the exchanger's parent
\* failed, mail.host.test answered and was returned
C33_Witness ==
    /\ ResolveReturned
    /\ resolve.email = <<"user", <<"Corp", "Test">> >>
    /\ Len(resolve.probes) = 5
    /\ resolve.result = [host |-> <<"mail", "host", "test">>, port |-> 993]

\* C34: the loop releases c.mu once per acquisition on every path through
\* its reconnect step: it never stands at the Unlock of line 342 having
\* already released c.mu at line 330, so no process abort happens and no
\* lock held by another goroutine is released.
C34_LoopUnlocksOnlyItsOwnLock ==
    /\ ~crashed
    /\ \A s \in Sessions : pc[s] # "unlock"

\* RemoveAccount or StopAll has stopped session s and has returned
RemovedAndReturned(s) ==
    /\ acct[s] # Nil /\ stopCh[s] /\ Cancelled(s)
    /\ \A id \in AllAccounts : clients[id] # s
    /\ ~(mgr.op \in {"remove", "stopall"} /\ mgr.pc # "ret")

\* the task of session s hands an event to the message callback or to the
\* error callback in this step
DeliversEvent(s) ==
    \/ pc[s] = "onErr" /\ pc'[s] # "onErr"
    \/ pc[s] = "fDeliver" /\ batch'[s] # batch[s]

\* C35: once RemoveAccount(id) or StopAll has returned, the background
\* task of the removed Session delivers no further message event and no
\* further error event.
C35_NoEventAfterRemoval ==
    [][\A s \in Sessions : RemovedAndReturned(s) => ~DeliversEvent(s)]_vars

\* C36: when the select or the fetch of a cycle returns an error, the
\* cycle hands nothing to the message callback, messages parsed before
\* the error included: it goes to the error callback with no message
\* kept and from there to the top of the loop, the database untouched;
\* and the tracked identifier stays the one the range was requested from,
\* so that the next cycle requests the same range.
C36_FailedCycleDeliversNothing ==
    [][\A s \in Sessions :
        /\ (pc[s] \in {"fSel", "fFetchIO"} /\ pc'[s] = "onErr") =>
              /\ batch'[s] = <<>>
              /\ lastUID'[s] = lastUID[s]
              /\ pc[s] = "fFetchIO" => lastUID'[s] = since[s]
              /\ UNCHANGED dbVars
        /\ (pc[s] = "onErr" /\ pc'[s] # "onErr") =>
              /\ pc'[s] = "top"
              /\ batch'[s] = <<>>
              /\ lastUID'[s] = lastUID[s]
              /\ UNCHANGED dbVars]_vars

\* a cycle failed with mail above the tracked identifier in the mailbox
\* and the tracked identifier already advanced by an earlier cycle
C36_Witness ==
    \E s \in Sessions :
        /\ pc[s] = "onErr" /\ lastUID[s] > 0
        /\ \E u \in mailbox[acct[s]] : u > lastUID[s]

\* C37: for each (account, uid) at most one chat message is ever sent,
\* whatever callbacks run and however they interleave; a callback whose
\* row already exists goes no further than the INSERT: it sends nothing
\* and updates nothing.
C37_AtMostOneChatMessage ==
    /\ [](\A k \in DOMAIN chatSent : chatSent[k] <= 1)
    /\ [][\A p \in Callers :
            /\ (CallerFree(p) /\ ops'[p] # ops[p] /\ ops'[p].pc = "send") =>
                    ~AlreadyExists(ops'[p].id, ops'[p].uid)
            /\ (CallerFree(p) /\ ops'[p] # ops[p] /\ ops'[p].res = "exists") =>
                    UNCHANGED dbVars]_vars

\* two callbacks for one message at the same time: one is between its
\* INSERT and its send, the other has returned on ErrAlreadyExists
C37_Witness ==
    \E p, q \in Callers :
        /\ ops[p].op = "callback" /\ ops[p].pc = "send"
        /\ ops[q].op = "callback" /\ ops[q].res = "exists"
        /\ rows = {<<ops[p].id, ops[p].uid>>}

\* the goroutine that holds c.mu of session s can take its next step
HolderRuns(s) ==
    /\ mu[s] = "loop" => ENABLED FetchEnd(s)
    /\ mu[s] = "op" => \E p \in Callers : ops[p].s = s /\ ENABLED OpEnd(p)

\* the operation that holds m.mu can take its next step, or waits for the
\* c.mu of its session and for nothing else
RegistryHolderRuns ==
    ~LockFree =>
        \/ ENABLED (AddConnect \/ AddSelect \/ StopAllPick \/ MgrStop \/ MgrClose \/ GetStatusRead)
        \/ mgr.pc \in {"stop", "flag"} /\ mu[mgr.s] # "free"

C39_OneAccountPerTopic ==
    /\ \A topic \in Topics : Cardinality(AccountsOf(topic)) <= 1
    /\ \A id \in AllAccounts : Exists(id) => emailAccounts[id] \in Topics
    /\ \A p \in Callers : handlers[p].res = "dup" => handlers[p].id = Nil

\* two commands for one topic passed the check; one inserted the account
\* and started its Session, the other lost at the INSERT and returned
C39_Witness ==
    \E p, q \in Callers :
        /\ handlers[p].res = "dup"
        /\ handlers[q].res = "ok" /\ handlers[q].topic = handlers[p].topic
        /\ AccountsOf(handlers[p].topic) = {handlers[q].id}
        /\ Exists(handlers[q].id)

====
